---- MODULE Spec2Model ----
(***************************************************************************)
(* Image conversion and concurrency engine of BisQue:                      *)
(*   bq/util/locks.py                          the Locks guard             *)
(*   bq/image_service/.../converter_imgcnv.py  run_command, run_read, run  *)
(* The in-process registry (bq.util.read_write_locks.HashedReadWriteLock), *)
(* ConverterBase.MINIMUM_FILE_SIZE and defaults.block_reads live in files  *)
(* that are not part of the source tree at hand; they follow spec.md.      *)
(*                                                                         *)
(* Granularity: every registry call is a step of its own, together with    *)
(* the thread-local code and the file-system calls that follow it up to    *)
(* the next registry call or converter invocation.  The converter          *)
(* invocation is a start step and an end step, so that other threads run   *)
(* while it is in progress.                                                *)
(***************************************************************************)
EXTENDS Integers, Sequences, FiniteSets, TLC

\* ---------------------------------------------------------------- bounds
MaxCalls == 1                 \* calls a thread makes

Threads  == {"t1", "t2"}
Paths    == {"a", "b"}         \* input paths
OutPaths == {"b"}              \* output paths

\* ------------------------------------------------------------- constants
None   == "None"
Absent == -1                  \* os.path.exists(p) is False
LOCK_SLEEP == 3               \* 0.3 s, in tenths of a second
MAX_SLEEP  == 80              \* 8 s, in tenths of a second
TIMEOUT    == 0
NoTimeout  == -1              \* timeout=None: wait until available
MINIMUM_FILE_SIZE == 8
OverwriteFloor == 16          \* os.path.getsize(ofnm) > 16

RetCodes  == {0, 1, 99, 100, 101}
FileSizes == {0, 1, MINIMUM_FILE_SIZE}

\* no cap at all
Min_Uncapped(x, y) == x

Min(x, y) == IF x < y THEN x ELSE y

VARIABLES
    os_name,      \* "posix" | "nt"                     (os.name, fixed)
    installed,    \* ConverterImgcnv.installed          (fixed after start-up)
    imgcnvlib,    \* "loaded" | "None"                  (module global)
    block_reads,  \* defaults.block_reads               (fixed)
    file,         \* path -> Absent | size in bytes
    entry,        \* locks.rw: path -> [readers, writer]
    liblock,      \* converter_imgcnv.rw entry 'libimgcnv': writer flag
    pc,           \* thread -> position in the code
    call,         \* thread -> [op, ifnm, ofnm] of the call in progress
    site,         \* thread -> which `with Locks(...)` the thread is in
    guard,        \* thread -> the Locks object of the current `with`
    lock_sleep,   \* thread -> local lock_sleep of acquire()
    log,          \* thread -> [cmd, ret] of the invocations of the call so far
    pend,         \* thread -> outcome decided inside the `with` body
    result,       \* thread -> outcome of the finished call
    ncalls,       \* thread -> calls started so far
    arg,          \* arguments of a call of a function without side effects
    ret           \* what that call returned

vars == <<os_name, installed, imgcnvlib, block_reads, file, entry, liblock,
          pc, call, site, guard, lock_sleep, log, pend, result,
          ncalls, arg, ret>>

config == <<os_name, installed, imgcnvlib, block_reads>>
io == <<arg, ret>>

\* no call of a side-effect free function is in progress
NoCall == [fn |-> None]

\* ------------------------------------------- registry (HashedReadWriteLock)
NewEntry == [readers |-> 0, writer |-> FALSE]

CanRead(ent, k)  == ~ent[k].writer
CanWrite(ent, k) == ~ent[k].writer /\ ent[k].readers = 0

acquire_read(ent, k)  == [ent EXCEPT ![k].readers = @ + 1]
acquire_write(ent, k) == [ent EXCEPT ![k].writer = TRUE]
release_read(ent, k)  == [ent EXCEPT ![k].readers = @ - 1]
release_write(ent, k) == [ent EXCEPT ![k].writer = FALSE]

\* ------------------------------------------------------------ Locks guard
NoGuard == [ifnm |-> None, ofnm |-> None, failonexist |-> FALSE,
            failonread |-> FALSE, thread_r |-> FALSE, thread_w |-> FALSE,
            rf |-> "None", wf |-> "None", locked |-> FALSE, live |-> FALSE]

\* Locks.__init__
Locks(ifnm, ofnm, failonexist, failonread) ==
    [ifnm |-> ifnm, ofnm |-> ofnm, failonexist |-> failonexist,
     failonread |-> failonread, thread_r |-> FALSE, thread_w |-> FALSE,
     rf |-> "None", wf |-> "None", locked |-> FALSE, live |-> TRUE]

\* a read stage that always waits, whatever failonread says
rtimeout_AlwaysBlock(g) == NoTimeout

rtimeout(g) == IF ~g.failonread THEN NoTimeout ELSE TIMEOUT
wtimeout(g) == IF ~g.failonexist THEN NoTimeout ELSE TIMEOUT

\* Locks.release: the file system after it
ReleaseFile(g, fl) ==
    IF g.wf # "None" /\ fl[g.ofnm] = 0
    THEN [fl EXCEPT ![g.ofnm] = Absent]
    ELSE fl

\* Locks.release: the registry after it
ReleaseEntry(g, ent) ==
    LET e1 == IF g.ofnm # None /\ g.thread_w
              THEN release_write(ent, g.ofnm) ELSE ent
    IN  IF g.ifnm # None /\ g.thread_r
        THEN release_read(e1, g.ifnm) ELSE e1

\* a release() that gives up the input before the output
ReleaseOrder_InputFirst(g) ==
    (IF g.rf # "None" THEN <<"rf">> ELSE <<>>)
    \o (IF g.ifnm # None /\ g.thread_r THEN <<"thread_r">> ELSE <<>>)
    \o (IF g.wf # "None" THEN <<"wf">> ELSE <<>>)
    \o (IF g.ofnm # None /\ g.thread_w THEN <<"thread_w">> ELSE <<>>)

\* Locks.release, lines 114-143: what it gives up, in the order of its
\* statements
ReleaseOrder(g) ==
    (IF g.wf # "None" THEN <<"wf">> ELSE <<>>)
    \o (IF g.ofnm # None /\ g.thread_w THEN <<"thread_w">> ELSE <<>>)
    \o (IF g.rf # "None" THEN <<"rf">> ELSE <<>>)
    \o (IF g.ifnm # None /\ g.thread_r THEN <<"thread_r">> ELSE <<>>)

\* release() that closes the files but forgets to clear thread_r / thread_w
ReleaseGuard_KeepFlags(g) ==
    [g EXCEPT !.wf = "None", !.rf = "None", !.locked = FALSE]

\* Locks.release: the guard after it
ReleaseGuard(g) ==
    [g EXCEPT !.wf = "None",
              !.thread_w = IF g.ofnm # None /\ g.thread_w THEN FALSE ELSE @,
              !.rf = "None",
              !.thread_r = IF g.ifnm # None /\ g.thread_r THEN FALSE ELSE @,
              !.locked = FALSE]

\* --------------------------------------------------- advisory file locks
ShHolders(p) == {t \in Threads : guard[t].rf = "locked" /\ guard[t].ifnm = p}
ExHolders(p) == {t \in Threads : guard[t].wf = "locked" /\ guard[t].ofnm = p}

\* portalocker.lock(f, LOCK_SH | LOCK_NB) succeeds; `other` tells whether
\* another process holds a conflicting lock on the file at this moment
FlockShared(p, other) == ~other /\ ExHolders(p) = {}
\* portalocker.lock(f, LOCK_EX | LOCK_NB) succeeds
FlockExclusive(p, other) ==
    ~other /\ ExHolders(p) = {} /\ ShHolders(p) = {}

\* ------------------------------------------------------------------ Init
Init ==
    /\ os_name \in {"posix", "nt"}
    /\ installed \in BOOLEAN
    /\ imgcnvlib \in {"loaded", "None"}
    /\ (os_name = "posix" => imgcnvlib = "loaded")
    /\ block_reads \in BOOLEAN
    /\ file \in [Paths -> {Absent, MINIMUM_FILE_SIZE}]
    /\ entry = [p \in Paths |-> NewEntry]
    /\ liblock = FALSE
    /\ pc = [t \in Threads |-> "idle"]
    /\ call = [t \in Threads |-> [op |-> None, ifnm |-> None, ofnm |-> None]]
    /\ site = [t \in Threads |-> None]
    /\ guard = [t \in Threads |-> NoGuard]
    /\ lock_sleep = [t \in Threads |-> LOCK_SLEEP]
    /\ log = [t \in Threads |-> <<>>]
    /\ pend = [t \in Threads |-> None]
    /\ result = [t \in Threads |-> None]
    /\ ncalls = [t \in Threads |-> 0]
    /\ arg = NoCall
    /\ ret = NoCall

\* ------------------------------------------------------------ call entry
Begin(t, c) ==
    /\ pc[t] = "idle"
    /\ ncalls[t] < MaxCalls
    /\ ncalls' = [ncalls EXCEPT ![t] = @ + 1]
    /\ call' = [call EXCEPT ![t] = c]
    /\ log' = [log EXCEPT ![t] = <<>>]
    /\ pend' = [pend EXCEPT ![t] = None]
    /\ result' = [result EXCEPT ![t] = None]

\* ConverterImgcnv.run_command(command)
StartRunCommand(t) ==
    /\ Begin(t, [op |-> "run_command", ifnm |-> None, ofnm |-> None])
    /\ pc' = [pc EXCEPT ![t] = "invoke"]
    /\ UNCHANGED <<config, io, file, entry, liblock, site, guard,
                   lock_sleep>>

\* ConverterImgcnv.run_read(ifnm, command): `with Locks(ifnm, failonread=...)`
StartRunRead(t, i) ==
    /\ Begin(t, [op |-> "run_read", ifnm |-> i, ofnm |-> None])
    /\ pc' = [pc EXCEPT ![t] = "acq_read"]
    /\ site' = [site EXCEPT ![t] = "run_read"]
    /\ guard' = [guard EXCEPT ![t] = Locks(i, None, FALSE, ~block_reads)]
    /\ UNCHANGED <<config, io, file, entry, liblock, lock_sleep>>

\* ConverterImgcnv.run(ifnm, ofnm, args, **kw), lines 348-352
StartRun(t, i, o) ==
    /\ pc[t] = "idle"
    /\ ncalls[t] < MaxCalls
    /\ ncalls' = [ncalls EXCEPT ![t] = @ + 1]
    /\ call' = [call EXCEPT ![t] = [op |-> "run", ifnm |-> i, ofnm |-> o]]
    /\ log' = [log EXCEPT ![t] = <<>>]
    /\ pend' = [pend EXCEPT ![t] = None]
    /\ IF ~installed
       THEN /\ pc' = [pc EXCEPT ![t] = "done"]
            /\ result' = [result EXCEPT ![t] = "ReturnNone349"]
            /\ UNCHANGED <<site, guard>>
       ELSE /\ pc' = [pc EXCEPT ![t] = "acq_read"]
            /\ result' = [result EXCEPT ![t] = None]
            /\ site' = [site EXCEPT ![t] = "run1"]
            /\ guard' = [guard EXCEPT ![t] = Locks(i, o, TRUE, FALSE)]
    /\ UNCHANGED <<config, io, file, entry, liblock, lock_sleep>>

\* ------------------------------------------------- the `with` bodies
\* The code between the return of acquire() and the next call into the
\* registry or the converter: run_read 336-338, run 353-364 and 379-380,
\* run 384-385.  g is the guard and fl the file system acquire() left.
\* the body without the `if not l.locked` test of lines 336 and 353
Body_IgnoreLocked(t, g, fl) ==
    LET o == call[t].ofnm IN
    IF site[t] = "run2"
    THEN /\ pend' = [pend EXCEPT ![t] = "fall"]
         /\ pc' = [pc EXCEPT ![t] = "exit"]
    ELSE /\ pc' = [pc EXCEPT ![t] = "invoke"]
         /\ UNCHANGED pend

Body(t, g, fl) ==
    LET o == call[t].ofnm IN
    IF g.locked = FALSE
    THEN \* raise ImageServiceFuture((1, 15))
         /\ pend' = [pend EXCEPT ![t] = "Future"]
         /\ pc' = [pc EXCEPT ![t] = "exit"]
    ELSE IF site[t] = "run2"
    THEN /\ pend' = [pend EXCEPT ![t] = "fall"]
         /\ pc' = [pc EXCEPT ![t] = "exit"]
    ELSE IF site[t] = "run1" /\ o # None /\ fl[o] # Absent
            /\ fl[o] > OverwriteFloor
    THEN \E nooverwrite \in BOOLEAN :
           IF nooverwrite
           THEN /\ pend' = [pend EXCEPT ![t] = "fall"]   \* proceed = False
                /\ pc' = [pc EXCEPT ![t] = "exit"]
           ELSE /\ pc' = [pc EXCEPT ![t] = "invoke"]
                /\ UNCHANGED pend
    ELSE /\ pc' = [pc EXCEPT ![t] = "invoke"]
         /\ UNCHANGED pend

\* ---------------------------------------------------------- Locks.acquire
\* lines 56-64: rw.acquire_read(ifnm, timeout=rtimeout)
AcquireRead(t) ==
    LET g == guard[t] IN
    /\ pc[t] = "acq_read"
    /\ IF g.ifnm = None
       THEN /\ pc' = [pc EXCEPT ![t] = "acq_write"]
            /\ UNCHANGED <<entry, guard, pend>>
       ELSE IF CanRead(entry, g.ifnm)
       THEN /\ entry' = acquire_read(entry, g.ifnm)
            /\ guard' = [guard EXCEPT ![t].thread_r = TRUE]
            /\ pc' = [pc EXCEPT ![t] =
                        IF os_name # "nt" THEN "acq_rf" ELSE "acq_write"]
            /\ UNCHANGED pend
       ELSE /\ rtimeout(g) = TIMEOUT      \* timeout=None waits here
            /\ Body(t, g, file)           \* `return` with locked False
            /\ UNCHANGED <<entry, guard>>
    /\ UNCHANGED <<config, io, file, liblock, call, site, lock_sleep,
                   log, result, ncalls>>

\* lines 66-80: one turn of the `while True` loop
AcquireShared(t, other) ==
    LET g == guard[t] IN
    /\ pc[t] = "acq_rf"
    /\ IF file[g.ifnm] = Absent
       THEN \* open(ifnm, 'rb') raises; the exception leaves acquire() and
            \* __enter__, so __exit__ never runs for this guard
            /\ pc' = [pc EXCEPT ![t] = "done"]
            /\ result' = [result EXCEPT ![t] = "IOError"]
            /\ guard' = [guard EXCEPT ![t] = NoGuard]
            /\ lock_sleep' = [lock_sleep EXCEPT ![t] = LOCK_SLEEP]
            /\ UNCHANGED pend
       ELSE IF FlockShared(g.ifnm, other)
       THEN /\ guard' = [guard EXCEPT ![t].rf = "locked"]
            /\ pc' = [pc EXCEPT ![t] = "acq_write"]
            /\ lock_sleep' = [lock_sleep EXCEPT ![t] = LOCK_SLEEP]
            /\ UNCHANGED <<result, pend>>
       ELSE IF g.failonread
       THEN /\ guard' = [guard EXCEPT ![t].rf = "open"]
            /\ Body(t, guard'[t], file)   \* `return` with locked False
            /\ lock_sleep' = [lock_sleep EXCEPT ![t] = LOCK_SLEEP]
            /\ UNCHANGED result
       ELSE \* time.sleep(lock_sleep); lock_sleep = min(lock_sleep*2, MAX_SLEEP)
            /\ guard' = [guard EXCEPT ![t].rf = "open"]
            /\ lock_sleep' = [lock_sleep EXCEPT ![t] = Min(@ * 2, MAX_SLEEP)]
            /\ UNCHANGED <<pc, result, pend>>
    /\ UNCHANGED <<config, io, file, entry, liblock, call, site, log,
                   ncalls>>

\* AcquireWrite with the failure of rw.acquire_write swallowed: the guard
\* goes on as if it had the write lock
AcquireWrite_SwallowBusy(t) ==
    LET g == guard[t] IN
    /\ pc[t] = "acq_write"
    /\ IF g.ofnm = None
       THEN /\ guard' = [guard EXCEPT ![t].locked = TRUE]
            /\ Body(t, guard'[t], file)
            /\ UNCHANGED <<entry, file>>
       ELSE /\ entry' = acquire_write(entry, g.ofnm)
            /\ guard' = [guard EXCEPT ![t].thread_w = TRUE]
            /\ pc' = [pc EXCEPT ![t] = "acq_wf"]
            /\ UNCHANGED <<file, pend>>
    /\ UNCHANGED <<config, io, liblock, call, site, lock_sleep, log,
                   result, ncalls>>

\* lines 82-91: rw.acquire_write(ofnm, timeout=wtimeout)
AcquireWrite(t) ==
    LET g == guard[t] IN
    /\ pc[t] = "acq_write"
    /\ IF g.ofnm = None
       THEN /\ guard' = [guard EXCEPT ![t].locked = TRUE]
            /\ Body(t, guard'[t], file)
            /\ UNCHANGED <<entry, file>>
       ELSE IF CanWrite(entry, g.ofnm)
       THEN /\ entry' = acquire_write(entry, g.ofnm)
            /\ guard' = [guard EXCEPT ![t].thread_w = TRUE]
            /\ pc' = [pc EXCEPT ![t] = "acq_wf"]
            /\ UNCHANGED <<file, pend>>
       ELSE /\ wtimeout(g) = TIMEOUT      \* timeout=None waits here
            /\ entry' = ReleaseEntry(g, entry)
            /\ file' = ReleaseFile(g, file)
            /\ guard' = [guard EXCEPT ![t] = ReleaseGuard(g)]
            /\ Body(t, guard'[t], file')
    /\ UNCHANGED <<config, io, liblock, call, site, lock_sleep, log,
                   result, ncalls>>

\* an output stage that returns on an existing output without release()
AcquireWriteFile_NoRelease(t, other) ==
    LET g == guard[t] IN
    /\ pc[t] = "acq_wf"
    /\ IF g.failonexist /\ file[g.ofnm] # Absent
       THEN UNCHANGED <<entry, file, guard>>
       ELSE IF os_name = "nt"
       THEN /\ guard' = [guard EXCEPT ![t].locked = TRUE]
            /\ UNCHANGED <<entry, file>>
       ELSE IF FlockExclusive(g.ofnm, other)
       THEN /\ file' = [file EXCEPT ![g.ofnm] = 0]
            /\ guard' = [guard EXCEPT ![t].wf = "locked", ![t].locked = TRUE]
            /\ UNCHANGED entry
       ELSE /\ entry' = ReleaseEntry(g, entry)
            /\ file' = ReleaseFile(g, [file EXCEPT ![g.ofnm] = 0])
            /\ guard' = [guard EXCEPT ![t] = ReleaseGuard(g)]
    /\ Body(t, guard'[t], file')
    /\ UNCHANGED <<config, io, liblock, call, site, lock_sleep, log,
                   result, ncalls>>

\* lines 93-111: the failonexist test, open(ofnm, mode) and the exclusive lock
AcquireWriteFile(t, other) ==
    LET g == guard[t] IN
    /\ pc[t] = "acq_wf"
    /\ IF g.failonexist /\ file[g.ofnm] # Absent
       THEN /\ entry' = ReleaseEntry(g, entry)
            /\ file' = ReleaseFile(g, file)
            /\ guard' = [guard EXCEPT ![t] = ReleaseGuard(g)]
       ELSE IF os_name = "nt"
       THEN /\ guard' = [guard EXCEPT ![t].locked = TRUE]
            /\ UNCHANGED <<entry, file>>
       ELSE IF FlockExclusive(g.ofnm, other)
       THEN \* open(ofnm, "wb") creates or truncates the file
            /\ file' = [file EXCEPT ![g.ofnm] = 0]
            /\ guard' = [guard EXCEPT ![t].wf = "locked", ![t].locked = TRUE]
            /\ UNCHANGED entry
       ELSE \* LockException: wf.close(); wf = None; release()
            /\ entry' = ReleaseEntry(g, entry)
            /\ file' = ReleaseFile(g, [file EXCEPT ![g.ofnm] = 0])
            /\ guard' = [guard EXCEPT ![t] = ReleaseGuard(g)]
    /\ Body(t, guard'[t], file')
    /\ UNCHANGED <<config, io, liblock, call, site, lock_sleep, log,
                   result, ncalls>>

\* ------------------------------------------------------- call_imgcnvlib
Running == -1                 \* ret of an invocation that has not returned

\* the command list of the call: built once from the arguments
Command(c) == <<"imgcnv", c.op, c.ifnm, c.ofnm>>

\* call_imgcnvlib(command) is entered
ConvStart(t) ==
    /\ pc[t] = "invoke"
    /\ IF os_name = "nt" /\ imgcnvlib = "None"
       THEN \* raise ImageServiceException(404, 'imgcnvlib not found')
            /\ IF call[t].op = "run_command"
               THEN /\ pc' = [pc EXCEPT ![t] = "done"]
                    /\ result' = [result EXCEPT ![t] = "Exc404"]
                    /\ UNCHANGED pend
               ELSE /\ pc' = [pc EXCEPT ![t] = "exit"]
                    /\ pend' = [pend EXCEPT ![t] = "Exc404"]
                    /\ UNCHANGED result
            /\ UNCHANGED <<log, liblock>>
       ELSE /\ os_name = "nt" => ~liblock   \* rw.acquire_write('libimgcnv')
            /\ liblock' = (os_name = "nt")
            /\ log' = [log EXCEPT ![t] =
                         Append(@, [cmd |-> Command(call[t]), ret |-> Running])]
            /\ pc' = [pc EXCEPT ![t] = "conv"]
            /\ UNCHANGED <<pend, result>>
    /\ UNCHANGED <<config, io, file, entry, call, site, guard,
                   lock_sleep, ncalls>>

\* what the converter may leave at the output path
ConverterOutputs(t) ==
    IF call[t].op = "run" /\ call[t].ofnm # None
    THEN {file[call[t].ofnm]} \cup FileSizes
    ELSE {Absent}

ConverterWrites(t, sz) ==
    IF call[t].op = "run" /\ call[t].ofnm # None
    THEN [file EXCEPT ![call[t].ofnm] = sz]
    ELSE file

\* a retry loop instead of a single retry
Retry_WhileBusy(attempt, retcode) == retcode \in {100, 101}

\* `retcode == 100 or retcode == 101` after the first invocation
Retry(attempt, retcode) == attempt = 1 /\ retcode \in {100, 101}

\* Classify without the os.remove(ofnm) of line 372
Classify_KeepOutputOnTimeout(t, attempt, retcode, fl) ==
    IF Retry(attempt, retcode)
    THEN /\ pc' = [pc EXCEPT ![t] = "invoke"]
         /\ file' = fl
         /\ UNCHANGED <<pend, result>>
    ELSE IF call[t].op = "run_command"
    THEN /\ pc' = [pc EXCEPT ![t] = "done"]
         /\ result' = [result EXCEPT ![t] = "ReturnOut"]
         /\ file' = fl
         /\ UNCHANGED pend
    ELSE /\ pc' = [pc EXCEPT ![t] = "exit"]
         /\ file' = fl
         /\ UNCHANGED result
         /\ pend' = [pend EXCEPT ![t] =
                       IF call[t].op = "run_read" THEN "ReturnOut"
                       ELSE IF retcode = 99 THEN "Exc412"
                       ELSE IF retcode # 0 THEN "ReturnNone376"
                       ELSE IF call[t].ofnm = None THEN "ReturnStr"
                       ELSE "fall"]

\* The code after call_imgcnvlib returned `retcode` on the given attempt:
\* run_command 328-331, run_read 340-343, run 366-378.  fl is the file
\* system the converter left.
Classify(t, attempt, retcode, fl) ==
    LET o == call[t].ofnm IN
    IF Retry(attempt, retcode)
    THEN /\ pc' = [pc EXCEPT ![t] = "invoke"]
         /\ file' = fl
         /\ UNCHANGED <<pend, result>>
    ELSE IF call[t].op = "run_command"
    THEN /\ pc' = [pc EXCEPT ![t] = "done"]
         /\ result' = [result EXCEPT ![t] = "ReturnOut"]
         /\ file' = fl
         /\ UNCHANGED pend
    ELSE IF call[t].op = "run_read"
    THEN /\ pc' = [pc EXCEPT ![t] = "exit"]
         /\ pend' = [pend EXCEPT ![t] = "ReturnOut"]
         /\ file' = fl
         /\ UNCHANGED result
    ELSE /\ pc' = [pc EXCEPT ![t] = "exit"]
         /\ UNCHANGED result
         /\ IF retcode = 99
            THEN /\ file' = IF o # None /\ fl[o] # Absent
                            THEN [fl EXCEPT ![o] = Absent] ELSE fl
                 /\ pend' = [pend EXCEPT ![t] = "Exc412"]
            ELSE IF retcode # 0
            THEN /\ pend' = [pend EXCEPT ![t] = "ReturnNone376"]
                 /\ file' = fl
            ELSE IF o = None
            THEN /\ pend' = [pend EXCEPT ![t] = "ReturnStr"]
                 /\ file' = fl
            ELSE /\ pend' = [pend EXCEPT ![t] = "fall"]
                 /\ file' = fl

\* call_imgcnvlib returns (r, out)
ConvEnd(t, r, sz) ==
    /\ pc[t] = "conv"
    /\ sz \in ConverterOutputs(t)
    /\ log' = [log EXCEPT ![t][Len(log[t])].ret = r]
    /\ liblock' = FALSE                 \* rw.release_write('libimgcnv') on nt
    /\ Classify(t, Len(log[t]), r, ConverterWrites(t, sz))
    /\ UNCHANGED <<config, io, entry, call, site, guard, lock_sleep,
                   ncalls>>

\* nt only: the library call raises inside the try; `return 100, None`
ConvRaise(t) ==
    /\ pc[t] = "conv"
    /\ os_name = "nt"
    /\ log' = [log EXCEPT ![t][Len(log[t])].ret = 100]
    /\ Classify(t, Len(log[t]), 100, file)
    /\ UNCHANGED <<config, io, entry, liblock, call, site, guard,
                   lock_sleep, ncalls>>

\* a block that releases at its end only: an exception raised inside it
\* skips the release
Exit_SkipReleaseOnRaise(t) ==
    LET g == guard[t]
        raised == pend[t] \in {"Future", "Exc412", "Exc404"}
    IN
    /\ pc[t] = "exit"
    /\ file' = IF raised THEN file ELSE ReleaseFile(g, file)
    /\ entry' = IF raised THEN entry ELSE ReleaseEntry(g, entry)
    /\ guard' = IF raised THEN guard ELSE [guard EXCEPT ![t] = ReleaseGuard(g)]
    /\ IF pend[t] = "fall"
       THEN /\ pc' = [pc EXCEPT ![t] =
                        IF site[t] = "run1" THEN "post382" ELSE "post387"]
            /\ UNCHANGED <<result, log>>
       ELSE /\ pc' = [pc EXCEPT ![t] = "done"]
            /\ result' = [result EXCEPT ![t] = pend[t]]
            /\ log' = [log EXCEPT ![t] = <<>>]
    /\ pend' = [pend EXCEPT ![t] = None]
    /\ UNCHANGED <<config, io, liblock, call, site, lock_sleep, ncalls>>

\* ---------------------------------------------------------- Locks.__exit__
Exit(t) ==
    LET g == guard[t] IN
    /\ pc[t] = "exit"
    /\ file' = ReleaseFile(g, file)
    /\ entry' = ReleaseEntry(g, entry)
    /\ guard' = [guard EXCEPT ![t] = ReleaseGuard(g)]
    /\ IF pend[t] = "fall"
       THEN /\ pc' = [pc EXCEPT ![t] =
                        IF site[t] = "run1" THEN "post382" ELSE "post387"]
            /\ UNCHANGED <<result, log>>
       ELSE /\ pc' = [pc EXCEPT ![t] = "done"]
            /\ result' = [result EXCEPT ![t] = pend[t]]
            /\ log' = [log EXCEPT ![t] = <<>>]
    /\ pend' = [pend EXCEPT ![t] = None]
    /\ UNCHANGED <<config, io, liblock, call, site, lock_sleep, ncalls>>

\* ------------------------------------------------------ run, lines 382-391
\* line 382-383: `with Locks(ofnm, failonread=failonread)`
Post382(t, kwfailonread) ==
    LET o == call[t].ofnm
        failonread == kwfailonread \/ ~block_reads
    IN
    /\ pc[t] = "post382"
    /\ IF o # None /\ file[o] # Absent
       THEN /\ guard' = [guard EXCEPT ![t] = Locks(o, None, FALSE, failonread)]
            /\ site' = [site EXCEPT ![t] = "run2"]
            /\ pc' = [pc EXCEPT ![t] = "acq_read"]
       ELSE /\ pc' = [pc EXCEPT ![t] = "post387"]
            /\ UNCHANGED <<guard, site>>
    /\ UNCHANGED <<config, io, file, entry, liblock, call, lock_sleep,
                   log, pend, result, ncalls>>

\* lines 387-391
Post387(t) ==
    LET o == call[t].ofnm IN
    /\ pc[t] = "post387"
    /\ pc' = [pc EXCEPT ![t] = "done"]
    /\ log' = [log EXCEPT ![t] = <<>>]
    /\ IF o = None
       THEN \* os.path.exists(None) raises TypeError
            /\ result' = [result EXCEPT ![t] = "TypeError"]
            /\ UNCHANGED file
       ELSE IF file[o] # Absent /\ file[o] < MINIMUM_FILE_SIZE
       THEN /\ file' = [file EXCEPT ![o] = Absent]
            /\ result' = [result EXCEPT ![t] = "ReturnNone390"]
       ELSE /\ result' = [result EXCEPT ![t] = "ReturnPath"]
            /\ UNCHANGED file
    /\ UNCHANGED <<config, io, entry, liblock, call, site, guard,
                   lock_sleep, pend, ncalls>>

\* the caller takes the outcome; the thread is free for its next call
Finish(t) ==
    /\ pc[t] = "done"
    /\ pc' = [pc EXCEPT ![t] = "idle"]
    /\ call' = [call EXCEPT ![t] = [op |-> None, ifnm |-> None, ofnm |-> None]]
    /\ site' = [site EXCEPT ![t] = None]
    /\ guard' = [guard EXCEPT ![t] = NoGuard]
    /\ log' = [log EXCEPT ![t] = <<>>]
    /\ result' = [result EXCEPT ![t] = None]
    /\ UNCHANGED <<config, io, file, entry, liblock, lock_sleep, pend,
                   ncalls>>

\* ------------------------------------------------------------------ Next
Next ==
    \/ \E t \in Threads : StartRunCommand(t)
    \/ \E t \in Threads, i \in Paths : StartRunRead(t, i)
    \/ \E t \in Threads, i \in Paths, o \in OutPaths \cup {None} :
            StartRun(t, i, o)
    \/ \E t \in Threads : AcquireRead(t)
    \/ \E t \in Threads, other \in BOOLEAN : AcquireShared(t, other)
    \/ \E t \in Threads : AcquireWrite(t)
    \/ \E t \in Threads, other \in BOOLEAN : AcquireWriteFile(t, other)
    \/ \E t \in Threads : ConvStart(t)
    \/ \E t \in Threads, r \in RetCodes, sz \in FileSizes \cup {Absent} :
            ConvEnd(t, r, sz)
    \/ \E t \in Threads : ConvRaise(t)
    \/ \E t \in Threads : Exit(t)
    \/ \E t \in Threads, kw \in BOOLEAN : Post382(t, kw)
    \/ \E t \in Threads : Post387(t)
    \/ \E t \in Threads : Finish(t)

Spec == Init /\ [][Next]_vars

\* =================================================================
\* Locks used directly: any sequence of acquire() and release()
\* =================================================================
MaxAcquires == 2

\* what a guard has taken and not given back: r[k] and w[k] count its
\* rw.acquire_read(k) / rw.acquire_write(k) minus the releases it made of
\* k; rf and wf name the files self.rf and self.wf are open on
NoneHeld == [r |-> [p \in Paths |-> 0], w |-> [p \in Paths |-> 0],
             rf |-> None, wf |-> None]

\* the state acquire() and release() work on: the guard, the registry, the
\* files, what the guard has taken, and how the call goes on
GuardState(t) ==
    [g |-> guard[t], ent |-> entry, fl |-> file, h |-> ret.held[t],
     go |-> "on"]

\* portalocker.lock on file p for the guard of thread t: the locks of the
\* other guard and of other processes are in the way
FileShared(t, p, other) ==
    ~other /\ \A u \in Threads \ {t} :
                ~(guard[u].wf = "locked" /\ ret.held[u].wf = p)
FileExclusive(t, p, other) ==
    /\ ~other
    /\ \A u \in Threads :
         /\ ~(guard[u].wf = "locked" /\ ret.held[u].wf = p)
         /\ ~(guard[u].rf = "locked" /\ ret.held[u].rf = p)

\* release() has a meaning in the registry: it gives up only locks that
\* somebody holds
ReleaseDefined(s) ==
    /\ ( s.g.ofnm # None /\ s.g.thread_w ) => s.ent[s.g.ofnm].writer
    /\ ( s.g.ifnm # None /\ s.g.thread_r ) => s.ent[s.g.ifnm].readers > 0

\* Locks.release, lines 113-145, on the keys self.ofnm and self.ifnm
Released(s, go) ==
    LET g == s.g IN
    [g   |-> ReleaseGuard(g),
     ent |-> ReleaseEntry(g, s.ent),
     fl  |-> IF g.wf # "None" /\ s.fl[s.h.wf] = 0
             THEN [s.fl EXCEPT ![s.h.wf] = Absent] ELSE s.fl,
     h   |-> [r  |-> IF g.ifnm # None /\ g.thread_r
                     THEN [s.h.r EXCEPT ![g.ifnm] = @ - 1] ELSE s.h.r,
              w  |-> IF g.ofnm # None /\ g.thread_w
                     THEN [s.h.w EXCEPT ![g.ofnm] = @ - 1] ELSE s.h.w,
              rf |-> None, wf |-> None],
     go  |-> go]

\* Locks.acquire, lines 56-80: the input stage on the key ifnm
InputStage(t, s, ifnm, other) ==
    IF ifnm = None THEN s
    ELSE IF ~CanRead(s.ent, ifnm)
    THEN [s EXCEPT !.go = IF rtimeout(s.g) = TIMEOUT
                          THEN "return" ELSE "wait"]
    ELSE LET s1 == [s EXCEPT !.g.thread_r = TRUE,
                             !.ent = acquire_read(s.ent, ifnm),
                             !.h.r[ifnm] = @ + 1]
         IN  IF os_name = "nt" THEN s1
             ELSE IF s.fl[ifnm] = Absent
             THEN [s1 EXCEPT !.go = "raise"]
             ELSE IF FileShared(t, ifnm, other)
             THEN [s1 EXCEPT !.g.rf = "locked", !.h.rf = ifnm]
             ELSE [s1 EXCEPT !.g.rf = "open", !.h.rf = ifnm,
                             !.go = IF s.g.failonread
                                    THEN "return" ELSE "wait"]

\* Locks.acquire, lines 82-111: the output stage on the key ofnm
OutputStage(t, s, ofnm, other) ==
    IF s.go # "on" THEN s
    ELSE IF ofnm = None THEN [s EXCEPT !.g.locked = TRUE, !.go = "locked"]
    ELSE IF ~CanWrite(s.ent, ofnm)
    THEN IF wtimeout(s.g) # TIMEOUT THEN [s EXCEPT !.go = "wait"]
         ELSE IF ReleaseDefined(s) THEN Released(s, "return")
         ELSE [s EXCEPT !.go = "undefined"]
    ELSE LET s2 == [s EXCEPT !.g.thread_w = TRUE,
                             !.ent = acquire_write(s.ent, ofnm),
                             !.h.w[ofnm] = @ + 1]
             s3 == [s2 EXCEPT !.fl[ofnm] = 0]      \* open(ofnm, 'wb')
         IN  IF s.g.failonexist /\ s.fl[ofnm] # Absent
             THEN IF ReleaseDefined(s2) THEN Released(s2, "return")
                  ELSE [s2 EXCEPT !.go = "undefined"]
             ELSE IF os_name = "nt"
             THEN [s2 EXCEPT !.g.locked = TRUE, !.go = "locked"]
             ELSE IF FileExclusive(t, ofnm, other)
             THEN [s3 EXCEPT !.g.wf = "locked", !.h.wf = ofnm,
                             !.g.locked = TRUE, !.go = "locked"]
             ELSE IF ReleaseDefined(s3)
             THEN Released([s3 EXCEPT !.g.wf = "None", !.h.wf = None],
                           "return")
             ELSE [s3 EXCEPT !.go = "undefined"]

\* the acquire() calls made so far, by all guards
RECURSIVE AcquiresOf(_)
AcquiresOf(S) ==
    IF S = {} THEN 0
    ELSE LET t == CHOOSE u \in S : TRUE IN ncalls[t] + AcquiresOf(S \ {t})

\* the flags a guard is built with: (failonexist, failonread)
GuardFlags == { <<FALSE, FALSE>>, <<TRUE, TRUE>> }

InitGuard ==
    /\ os_name \in {"posix", "nt"}
    /\ installed = TRUE /\ imgcnvlib = "loaded" /\ block_reads = FALSE
    /\ file \in { [p \in Paths |-> IF p \in OutPaths THEN sz
                                  ELSE MINIMUM_FILE_SIZE] :
                    sz \in {Absent, MINIMUM_FILE_SIZE} }
    /\ entry = [p \in Paths |-> NewEntry]
    /\ liblock = FALSE
    /\ pc = [t \in Threads |-> "idle"]
    /\ call = [t \in Threads |-> [op |-> None, ifnm |-> None, ofnm |-> None]]
    /\ site = [t \in Threads |-> None]
    /\ guard = [t \in Threads |-> NoGuard]
    /\ lock_sleep = [t \in Threads |-> LOCK_SLEEP]
    /\ log = [t \in Threads |-> <<>>]
    /\ pend = [t \in Threads |-> None]
    /\ result = [t \in Threads |-> None]
    /\ ncalls = [t \in Threads |-> 0]
    /\ arg = NoCall
    /\ ret = [fn |-> "Locks", held |-> [t \in Threads |-> NoneHeld]]

\* Locks(ifnm, ofnm, failonexist=..., failonread=...)
NewGuard(t, i, o, fe, fr) ==
    /\ ~guard[t].live
    /\ guard' = [guard EXCEPT ![t] = Locks(i, o, fe, fr)]
    /\ call' = [call EXCEPT ![t] = [op |-> "Locks", ifnm |-> i, ofnm |-> o]]
    /\ UNCHANGED <<config, file, entry, liblock, pc, site, lock_sleep, log,
                   pend, result, ncalls, io>>

\* guard.acquire(ifnm, ofnm), to its end; a call that waits for a lock
\* does not end in this state
GuardAcquire(t, i, o, other) ==
    LET g    == guard[t]
        ifnm == IF i # None THEN i ELSE g.ifnm
        ofnm == IF o # None THEN o ELSE g.ofnm
        s    == OutputStage(t, InputStage(t, GuardState(t), ifnm, other),
                            ofnm, other)
    IN  /\ g.live
        /\ AcquiresOf(Threads) < MaxAcquires
        /\ s.go \in {"locked", "return", "raise"}
        /\ ncalls' = [ncalls EXCEPT ![t] = @ + 1]
        /\ guard' = [guard EXCEPT ![t] = s.g]
        /\ entry' = s.ent
        /\ file' = s.fl
        /\ ret' = [ret EXCEPT !.held[t] = s.h]
        /\ call' = [call EXCEPT ![t] =
                      [op |-> "acquire", ifnm |-> i, ofnm |-> o]]
        /\ result' = [result EXCEPT ![t] =
                        IF s.go = "raise" THEN "IOError" ELSE None]
        /\ UNCHANGED <<config, liblock, pc, site, lock_sleep, log, pend,
                       arg>>

\* guard.release()
GuardRelease(t) ==
    LET s == Released(GuardState(t), "return") IN
    /\ guard[t].live
    /\ call[t].op = "acquire"
    /\ ReleaseDefined(GuardState(t))
    /\ guard' = [guard EXCEPT ![t] = s.g]
    /\ entry' = s.ent
    /\ file' = s.fl
    /\ ret' = [ret EXCEPT !.held[t] = s.h]
    /\ call' = [call EXCEPT ![t].op = "release"]
    /\ result' = [result EXCEPT ![t] = None]
    /\ UNCHANGED <<config, liblock, pc, site, lock_sleep, log, pend,
                   ncalls, arg>>

NextGuard ==
    \/ \E t \in Threads, i \in Paths \cup {None}, o \in OutPaths \cup {None},
          fl \in GuardFlags : NewGuard(t, i, o, fl[1], fl[2])
    \/ \E t \in Threads, i \in Paths \cup {None}, o \in OutPaths \cup {None},
          other \in BOOLEAN : GuardAcquire(t, i, o, other)
    \/ \E t \in Threads : GuardRelease(t)

SpecGuard == InitGuard /\ [][NextGuard]_vars

\* =================================================================
\* ConverterImgcnv.group_files_dicom
\* =================================================================
Files == {"f1", "f2", "f3"}

NoTag == -1                   \* the tag is not in the dataset

\* what pydicom.dcmread finds in a file.  pixel: the dataset has PixelData;
\* the key fields other than the series are the same in all files.
\* PositionTags: (0020,1041) slice location and (0020,0013) instance number;
\* FrameTags: (0020,0105), (0028,0008) and (0018,0023)
PositionTags == { <<NoTag, 0>>, <<NoTag, 2>>, <<1, 2>>, <<0, 2>> }
FrameTags    == { <<0, 0, "3D">>, <<2, 3, "2D">>, <<0, 3, "3D">> }
Datasets ==
    { [pixel |-> FALSE, series_uid |-> 1, slice_loc |-> NoTag,
       instance_num |-> 0, num_temp_p |-> 0, num_frames |-> 0,
       mr_acq_typ |-> "2D"] }
    \cup
    { [pixel |-> TRUE, series_uid |-> s, slice_loc |-> pt[1],
       instance_num |-> pt[2], num_temp_p |-> ft[1], num_frames |-> ft[2],
       mr_acq_typ |-> ft[3]] :
         s \in {1, 2}, pt \in PositionTags, ft \in FrameTags }

\* all orders of the members of a set
Orders(S) ==
    { q \in [1..Cardinality(S) -> S] :
        \A x \in S : \E i \in DOMAIN q : q[i] = x }

\* read_tag_float(ds, key, 0.0) and read_tag_int(ds, key, 0)
read_tag_num(v) == IF v = NoTag THEN 0 ELSE v

\* Python's `x or y` on numbers
Or(x, y) == IF x # 0 THEN x ELSE y

\* the tuple of a file with force_time left False
DataOf_NeverForced(f, ds) ==
    LET slice_loc  == read_tag_num(ds.slice_loc)
        count      == Or(read_tag_num(ds.num_temp_p),
                         read_tag_num(ds.num_frames))
    IN  [key  |-> <<"MR", "p", "st", ds.series_uid, 1>>,
         pos  |-> Or(slice_loc, read_tag_num(ds.instance_num)),
         f    |-> f,
         num  |-> count,
         flag |-> FALSE]

\* lines 949-971: the tuple d = (key, position, f, frame hint) of a file.
\* The last component is a number, or the boolean force_time when both
\* counts are 0: num holds the number and flag the boolean.
DataOf(f, ds) ==
    LET slice_loc  == read_tag_num(ds.slice_loc)
        num_temp_p == read_tag_num(ds.num_temp_p)
        num_frames == read_tag_num(ds.num_frames)
        force_time == ds.mr_acq_typ = "3D" /\ ds.slice_loc = NoTag
        count      == Or(num_temp_p, num_frames)
    IN  [key  |-> <<"MR", "p", "st", ds.series_uid, 1>>,
         pos  |-> Or(slice_loc, read_tag_num(ds.instance_num)),
         f    |-> f,
         num  |-> count,
         flag |-> count = 0 /\ force_time]

\* order of the keys: field by field
RECURSIVE KeyLess(_, _)
KeyLess(k1, k2) ==
    IF k1 = <<>> \/ k2 = <<>> THEN FALSE
    ELSE IF Head(k1) = Head(k2) THEN KeyLess(Tail(k1), Tail(k2))
    ELSE IF Head(k1) \in Int THEN Head(k1) < Head(k2)
    ELSE FALSE

\* in the pass by position an entry goes before its equals
Before_EqualsFirst(by, x, y) ==
    IF by = "key" THEN KeyLess(x.key, y.key) ELSE x.pos <= y.pos

\* x sorts before y under the sort key of the given pass
Before(by, x, y) ==
    IF by = "key" THEN KeyLess(x.key, y.key) ELSE x.pos < y.pos

\* x goes behind every entry that does not sort after it
RECURSIVE InsertSorted(_, _, _)
InsertSorted(by, x, s) ==
    IF s = <<>> THEN <<x>>
    ELSE IF ~Before(by, x, Head(s))
    THEN <<Head(s)>> \o InsertSorted(by, x, Tail(s))
    ELSE <<x>> \o s

\* sorted(s, key=...): Python's sort is stable
RECURSIVE sorted(_, _)
sorted(by, s) ==
    IF s = <<>> THEN <<>>
    ELSE InsertSorted(by, s[Len(s)], sorted(by, SubSeq(s, 1, Len(s) - 1)))

\* itertools.groupby(data, key): runs of equal keys
RECURSIVE groupby(_)
groupby(s) ==
    IF s = <<>> THEN <<>>
    ELSE LET rest == groupby(Tail(s)) IN
         IF rest # <<>> /\ Head(rest)[1].key = Head(s).key
         THEN << <<Head(s)>> \o Head(rest) >> \o Tail(rest)
         ELSE << <<Head(s)>> >> \o rest

\* lines 936-972: the entries of the files that are images, in input order
RECURSIVE ReadData(_, _)
ReadData(files, dicom) ==
    IF files = <<>> THEN <<>>
    ELSE IF dicom[Head(files)].pixel
    THEN <<DataOf(Head(files), dicom[Head(files)])>>
           \o ReadData(Tail(files), dicom)
    ELSE ReadData(Tail(files), dicom)

\* the files that are not images are dropped
Blobs_Dropped(files, dicom) == <<>>

\* lines 939-947: the files that are not images, in input order
Blobs(files, dicom) == SelectSeq(files, LAMBDA f : ~dicom[f].pixel)

\* geometry that takes the frame hint of every group for absent
Geometry_IgnoreHint(g) ==
    IF Len(g) = 1 THEN [t |-> 1, z |-> 1] ELSE [t |-> 1, z |-> Len(g)]

\* lines 985-997: the geometry of one group
Geometry(g) ==
    LET frame_num == IF g[1].flag THEN Len(g) ELSE g[1].num IN
    IF Len(g) = 1 THEN [t |-> 1, z |-> 1]
    ELSE IF frame_num > 0
    THEN [t |-> frame_num, z |-> Len(g) \div frame_num]
    ELSE [t |-> 1, z |-> Len(g)]

\* the groups left in the order the grouping finds them in
Groups_Unsorted(files, dicom) ==
    groupby(sorted("key", ReadData(files, dicom)))

\* lines 978-980: the groups, each in its order
Groups(files, dicom) ==
    LET data == sorted("key", ReadData(files, dicom))
        gs   == groupby(data)
    IN  [i \in DOMAIN gs |-> sorted("pos", gs[i])]

group_files_dicom(inst, files, dicom) ==
    IF ~inst THEN [fn |-> "group_files_dicom", value |-> FALSE]
    ELSE LET groups == Groups(files, dicom) IN
         [fn |-> "group_files_dicom", value |-> TRUE,
          images   |-> [i \in DOMAIN groups |->
                          [j \in DOMAIN groups[i] |-> groups[i][j].f]],
          blobs    |-> Blobs(files, dicom),
          geometry |-> [i \in DOMAIN groups |-> Geometry(groups[i])]]

\* the machine of the guard and the converter at rest
AtRest ==
    /\ os_name = "posix" /\ imgcnvlib = "loaded" /\ block_reads = FALSE
    /\ file = [p \in Paths |-> MINIMUM_FILE_SIZE]
    /\ entry = [p \in Paths |-> NewEntry]
    /\ liblock = FALSE
    /\ pc = [t \in Threads |-> "idle"]
    /\ call = [t \in Threads |-> [op |-> None, ifnm |-> None, ofnm |-> None]]
    /\ site = [t \in Threads |-> None]
    /\ guard = [t \in Threads |-> NoGuard]
    /\ lock_sleep = [t \in Threads |-> LOCK_SLEEP]
    /\ log = [t \in Threads |-> <<>>]
    /\ pend = [t \in Threads |-> None]
    /\ result = [t \in Threads |-> None]
    /\ ncalls = [t \in Threads |-> 0]

machine == <<os_name, installed, imgcnvlib, block_reads, file, entry,
             liblock, pc, call, site, guard, lock_sleep, log, pend, result,
             ncalls>>

InitDicom ==
    /\ AtRest
    /\ installed \in BOOLEAN
    /\ arg \in { [fn |-> "group_files_dicom", files |-> q, dicom |-> d] :
                   q \in Orders(Files), d \in [Files -> Datasets] }
    /\ ret = NoCall

GroupFilesDicom ==
    /\ arg.fn = "group_files_dicom"
    /\ ret = NoCall
    /\ ret' = group_files_dicom(installed, arg.files, arg.dicom)
    /\ UNCHANGED <<machine, arg>>

NextDicom == GroupFilesDicom

SpecDicom == InitDicom /\ [][NextDicom]_vars

\* =================================================================
\* ConverterImgcnv.slice
\* =================================================================
\* An optional entry of a dictionary is a sequence: <<>> when the key is
\* missing, <<v>> when it holds v.
Get(field, default) == IF field = <<>> THEN default ELSE field[1]

\* a string, as the sequence of its characters
XYCZT == <<"X", "Y", "C", "Z", "T">>
XYCT  == <<"X", "Y", "C", "T">>

\* s.replace(' ', '')
StripSpaces(str) == SelectSeq(str, LAMBDA ch : ch # " ")

\* s.startswith(prefix)
StartsWith(str, prefix) ==
    Len(str) >= Len(prefix) /\ SubSeq(str, 1, Len(prefix)) = prefix

\* range(a, b + 1)
RangeIncl(a, b) == [i \in 1..(b - a + 1) |-> a + i - 1]

\* a page number that always counts Z fastest
page_num_ZFastest(info, zi, ti) ==
    (ti - 1) * Get(info.image_num_z, 1) + zi

\* a page number that strides over T by the Z-count in the order XYCT
page_num_WrongStride(info, zi, ti) ==
    IF Get(info.image_num_t, 1) = 1 THEN zi
    ELSE IF Get(info.image_num_z, 1) = 1 THEN ti
    ELSE IF ~StartsWith(StripSpaces(Get(info.dimensions, XYCZT)), XYCT)
    THEN (ti - 1) * Get(info.image_num_z, 1) + zi
    ELSE (zi - 1) * Get(info.image_num_z, 1) + ti

\* lines 720-727
page_num(info, zi, ti) ==
    IF Get(info.image_num_t, 1) = 1 THEN zi
    ELSE IF Get(info.image_num_z, 1) = 1 THEN ti
    ELSE IF ~StartsWith(StripSpaces(Get(info.dimensions, XYCZT)), XYCT)
    THEN (ti - 1) * Get(info.image_num_z, 1) + zi
    ELSE (zi - 1) * Get(info.image_num_t, 1) + ti

\* lines 717-728: `for ti in ...: for zi in ...: pages.append(page_num)`
RECURSIVE Pages(_, _, _)
Pages(info, ts, zs) ==
    IF ts = <<>> THEN <<>>
    ELSE [i \in DOMAIN zs |-> page_num(info, zs[i], Head(ts))]
           \o Pages(info, Tail(ts), zs)

\* one file index for each page, whatever the number of channels
ChannelPages_OnePerPage(pages, channels) ==
    [i \in DOMAIN pages |-> pages[i] - 1]

\* lines 747-750: the file indices of the channels of the pages
RECURSIVE ChannelPages(_, _)
ChannelPages(pages, channels) ==
    IF pages = <<>> THEN <<>>
    ELSE [c \in 1..channels |-> (Head(pages) - 1) * channels + c - 1]
           \o ChannelPages(Tail(pages), channels)

\* a conversion that decrements the bounds of every axis
Roi0_Always(b1, b2) ==
    << IF b1 > 0 THEN b1 - 1 ELSE b1, IF b2 > 0 THEN b2 - 1 ELSE b2 >>

\* lines 756-765: the bounds of one axis
Roi0(b1, b2) ==
    IF b1 # b2
    THEN << IF b1 > 0 THEN b1 - 1 ELSE b1, IF b2 > 0 THEN b2 - 1 ELSE b2 >>
    ELSE << b1, b2 >>

\* slice(token, ofnm, z, t, roi) without extended dimensions in kw.  An
\* option of the command is <<flag, value>>, its value as it is before
\* formatting.  input: the 0-based indices of the files token.input is
\* rebound to (rebound FALSE: token.input is left alone).
slice(token, z, t, roi) ==
    LET info  == token.dims
        t2    == IF t[2] = 0 THEN t[1] ELSE t[2]
        z2    == IF z[2] = 0 THEN z[1] ELSE z[2]
        pages == Pages(info, RangeIncl(t[1], t2), RangeIncl(z[1], z2))
        channels == Get(token.meta_image_num_c, 0)
        path  == IF token.series # 0
                 THEN << <<"-path", <<token.series>> >> >> ELSE <<>>
        page  == IF ~token.multifile
                 THEN << <<"-page", pages>> >> ELSE <<>>
        geom  == IF token.multifile /\ ~(Len(pages) = 1 /\ channels <= 1)
                    /\ channels > 1
                 THEN << <<"-geometry", <<1, 1, channels>> >> >> ELSE <<>>
        x     == Roi0(roi[1], roi[2])
        y     == Roi0(roi[3], roi[4])
        area  == IF roi[1] # roi[2] \/ roi[3] # roi[4]
                 THEN << <<"-roi", <<x[1], y[1], x[2], y[2]>> >> >>
                 ELSE <<>>
    IN  [fn |-> "slice",
         command |-> path \o page \o geom \o area,
         pages   |-> pages,
         rebound |-> token.multifile,
         input   |-> IF ~token.multifile THEN <<>>
                     ELSE IF Len(pages) = 1 /\ channels <= 1
                     THEN << pages[1] - 1 >>
                     ELSE IF channels > 1
                     THEN ChannelPages(pages, channels)
                     ELSE [i \in DOMAIN pages |-> pages[i] - 1]]

\* the requests
Dimensions  == {<<>>, << <<"X", "Y", "Z", "C", "T">> >>,
                << <<"X", "Y", " ", "C", "T", "Z">> >>}
Tokens ==
    { [series |-> sr, multifile |-> mf, meta_image_num_c |-> ch,
       dims |-> [image_num_z |-> nz, image_num_t |-> nt,
                 dimensions |-> dm]] :
        sr \in {0, 2}, mf \in BOOLEAN, ch \in {<<>>, <<2>>},
        nz \in {<<>>, <<1>>, <<3>>}, nt \in {<<>>, <<1>>, <<4>>},
        dm \in Dimensions }
ZRanges == {1, 2} \X {0, 3}
TRanges == {1, 3} \X {0, 4}
Rois    == {0, 1, 2} \X {0, 1, 2} \X {1, 3} \X {1, 3}

InitSlice ==
    /\ AtRest
    /\ installed = TRUE
    /\ arg \in { [fn |-> "slice", token |-> tk, z |-> z, t |-> t,
                  roi |-> roi] :
                   tk \in Tokens, z \in ZRanges, t \in TRanges,
                   roi \in Rois }
    /\ ret = NoCall

Slice ==
    /\ arg.fn = "slice"
    /\ ret = NoCall
    /\ ret' = slice(arg.token, arg.z, arg.t, arg.roi)
    /\ UNCHANGED <<machine, arg>>

NextSlice == Slice

SpecSlice == InitSlice /\ [][NextSlice]_vars

\* =================================================================
\* ConverterImgcnv.thumbnail and ConverterImgcnv.writeHistogram
\* =================================================================
\* A float is the fraction <<numerator, denominator>>, denominator > 0.
FracLe(a, b) == a[1] * b[2] <= b[1] * a[2]
FracEq(a, b) == a[1] * b[2] = b[1] * a[2]
FracMax(a, b) == IF FracLe(b, a) THEN a ELSE b
One  == <<1, 1>>
Zero == <<0, 1>>

\* round(n / d) of Python 3: to the nearest integer, a half to the even one
round(n, d) ==
    LET q == n \div d
        r == n % d
    IN  IF 2 * r < d THEN q
        ELSE IF 2 * r > d THEN q + 1
        ELSE IF q % 2 = 0 THEN q ELSE q + 1

\* line 649: sizes = [(round(num_x * i), round(num_y * i)) for i in scales]
Sizes(num_x, num_y, scales) ==
    [i \in DOMAIN scales |->
       << round(num_x * scales[i][1], scales[i][2]),
          round(num_y * scales[i][1], scales[i][2]) >>]

\* line 650: max(width / sz[0], height / sz[1])
Relative(width, height, sz) ==
    FracMax(<<width, sz[1]>>, <<height, sz[2]>>)

\* a selection that keeps the levels that are too small
Retained_KeepAll(rel) == rel

\* line 651: i if i <= 1 else 0
Retained(rel) == IF FracLe(rel, One) THEN rel ELSE Zero

\* the last index of the maximum instead of the first
IndexOfMax_Last(relatives) ==
    LET last == CHOOSE i \in DOMAIN relatives :
                  /\ \A j \in DOMAIN relatives :
                       FracLe(relatives[j], relatives[i])
                  /\ \A j \in (i + 1)..Len(relatives) :
                       ~FracEq(relatives[j], relatives[i])
    IN  last - 1

\* line 652: relatives.index(max(relatives)), counted from 0
IndexOfMax(relatives) ==
    LET first == CHOOSE i \in DOMAIN relatives :
                   /\ \A j \in DOMAIN relatives :
                        FracLe(relatives[j], relatives[i])
                   /\ \A j \in 1..(i - 1) :
                        ~FracEq(relatives[j], relatives[i])
    IN  first - 1

\* lines 644-655 and 862-875: the -res-level option, or nothing when the
\* image has one level or the computation raises (no scales, a level of
\* size 0)
ResLevel(info, width, height) ==
    IF Get(info.image_num_resolution_levels, 1) > 1
    THEN LET scales == Get(info.image_resolution_level_scales, <<>>)
             sizes  == Sizes(Get(info.image_num_x, 1),
                             Get(info.image_num_y, 1), scales)
         IN  IF scales = <<>>
                \/ \E i \in DOMAIN sizes : sizes[i][1] = 0 \/ sizes[i][2] = 0
             THEN <<>>
             ELSE << <<"-res-level",
                       IndexOfMax([i \in DOMAIN sizes |->
                          Retained(Relative(width, height, sizes[i]))])>> >>
    ELSE <<>>

\* '-i' in queue
InQueue(flag, queue) == \E i \in DOMAIN queue : queue[i][1] = flag

\* token.series is not None and token.series != 0
PathOption(token) ==
    IF token.series # 0 THEN << <<"-path", token.series>> >> ELSE <<>>

\* lines 674-675 and 856-857: -c files[page + s] for s in range(1, samples)
ChannelFiles(page, samples) ==
    [s \in 1..(samples - 1) |-> <<"-c", <<"files", page + s>> >>]

\* lines 636-640: the middle page, counted from 0
MidPage(num_z, num_t) ==
    IF num_z > 1 \/ num_t > 1
    THEN LET mx == (IF num_z > 1 THEN num_z ELSE Min(num_t, 500)) - 1
             hf == IF mx \div 2 > 0 THEN mx \div 2 ELSE 0
         IN  Min(hf, mx)
    ELSE 0

\* thumbnail(token, ofnm, width, height, preproc=...), fmt and method left
\* at their defaults, pixel depth unknown.  command: None, or the options
\* as <<flag, value>>; input: the file token.input is rebound to
thumbnail(token, width, height, preproc) ==
    LET info    == token.dims
        page    == MidPage(Get(info.image_num_z, 1), Get(info.image_num_t, 1))
        samples == Get(token.meta_image_num_c, 0)
        single  == (IF InQueue("-i", token.queue)
                    THEN << <<"-i", "ifnm">> >> ELSE <<>>)
                   \o (IF ~InQueue("-page", token.queue)
                       THEN << <<"-page", page + 1>> >> ELSE <<>>)
        multi   == IF samples < 2 THEN <<>>
                   ELSE << <<"-i", <<"files", page * samples>> >> >>
                          \o ChannelFiles(page * samples, samples)
    IN  IF preproc \notin {"", "mid"}
        THEN [fn |-> "thumbnail", command |-> None, input |-> <<>>]
        ELSE [fn |-> "thumbnail",
              command |->
                 << <<"-o", "ofnm">>, <<"-t", "jpeg">> >>
                 \o PathOption(token)
                 \o ResLevel(info, width, height)
                 \o (IF ~token.multifile THEN single ELSE multi)
                 \o << <<"-enhancemeta", <<>> >>, <<"-depth", "8,d,u">>,
                       <<"-resize", <<width, height, "BC", "AR">> >>,
                       <<"-fusemeta", <<>> >>, <<"-fusemethod", "m">>,
                       <<"-options", "quality 95 progressive yes">> >>,
              input |-> IF token.multifile /\ samples < 2
                        THEN << <<"files", page>> >> ELSE <<>>]

\* lines 864-865
HistogramWidth  == 500
HistogramHeight == 500

\* writeHistogram(token, ofnm): the command it hands to run(), lines 839-875
writeHistogram(token) ==
    LET samples == Get(token.meta_image_num_c, 0)
        inputs  == IF InQueue("-i", token.queue) \/ InQueue("-il", token.queue)
                   THEN <<>>
                   ELSE IF ~token.multifile THEN << <<"-i", "ifnm">> >>
                   ELSE << <<"-i", <<"files", 0>> >> >>
                          \o (IF samples < 2 THEN <<>>
                              ELSE ChannelFiles(0, samples))
    IN  [fn |-> "writeHistogram",
         command |-> << <<"-ohst", "ofnm">> >>
                     \o PathOption(token)
                     \o inputs
                     \o token.queue
                     \o ResLevel(token.dims, HistogramWidth, HistogramHeight)]

\* lines 783-784 and 792-797: tile() has no command for the request
TileSkipped(token, level, sz, arbitrary_size) ==
    \/ arbitrary_size \/ level = <<>> \/ sz = <<>>
    \/ Get(token.dims.image_num_resolution_levels, 1) <= 1
    \/ Get(token.dims.tile_num_x, 0) < 1
    \/ Get(token.dims.tile_num_y, 0) < 1

\* tile(token, ofnm, level, x, y, sz, arbitrary_size=...); level and sz are
\* <<>> for None.  The values of -tile and -speed are left as they are
\* named in the code.
tile(token, level, sz, arbitrary_size) ==
    LET samples == Get(token.meta_image_num_c, 0)
        inputs  == IF \/ InQueue("-i", token.queue)
                      \/ InQueue("-il", token.queue)
                      \/ InQueue("-page", token.queue)
                   THEN <<>>
                   ELSE IF ~token.multifile
                   THEN << <<"-i", "ifnm">>, <<"-page", 1>> >>
                   ELSE << <<"-i", <<"files", 0>> >> >>
                          \o (IF samples < 2 THEN <<>>
                              ELSE ChannelFiles(0, samples))
    IN  IF TileSkipped(token, level, sz, arbitrary_size)
        THEN [fn |-> "tile", command |-> None]
        ELSE [fn |-> "tile",
              command |-> PathOption(token)
                          \o inputs
                          \o << <<"-tile", "sz,x,y,level">>,
                                <<"-speed", "speed_file">> >>]

\* the requests
ScaleLists ==
    { <<>>,
      << <<One, <<1, 4>> >> >>,
      << <<One, <<1, 2>>, <<1, 4>> >> >>,
      << <<One, <<1, 2>>, <<1, 8>> >> >>,
      << << <<1, 4>>, <<1, 2>>, One >> >> }
Queues ==
    { <<>>, << <<"-i", "ifnm">> >>, << <<"-page", 1>> >>,
      << <<"-i", "ifnm">>, <<"-page", 1>> >>, << <<"-il", "list">> >> }
ImageTokens ==
    { [series |-> sr, multifile |-> fm[1], meta_image_num_c |-> fm[2],
       queue |-> qu,
       dims |-> [image_num_z |-> nz, image_num_t |-> <<4>>,
                 image_num_resolution_levels |-> nl,
                 image_num_x |-> nx, image_num_y |-> ny,
                 image_resolution_level_scales |-> sc]] :
        sr \in {0, 2}, qu \in Queues,
        fm \in {<<FALSE, <<>> >>, <<TRUE, <<>> >>, <<TRUE, <<2>> >>},
        nz \in {<<>>, <<3>>}, nl \in {<<>>, <<1>>, <<3>>},
        nx \in {<<1000>>, <<3>>}, ny \in {<<1000>>, <<600>>},
        sc \in ScaleLists }
TileTokens ==
    { [series |-> sr, multifile |-> fm[1], meta_image_num_c |-> fm[2],
       queue |-> qu,
       dims |-> [image_num_resolution_levels |-> nl,
                 tile_num_x |-> tn[1], tile_num_y |-> tn[2]]] :
        sr \in {0, 2}, qu \in Queues,
        fm \in {<<FALSE, <<>> >>, <<TRUE, <<>> >>, <<TRUE, <<2>> >>},
        nl \in {<<>>, <<3>>},
        tn \in { << <<>>, <<>> >>, << <<256>>, <<256>> >>,
                 << <<256>>, <<0>> >> } }
Widths  == {100, 300, 1200}
Heights == {100, 300}

InitImage ==
    /\ AtRest
    /\ installed = TRUE
    /\ arg \in { [fn |-> "thumbnail", token |-> tk, width |-> w,
                  height |-> h, preproc |-> pp] :
                   tk \in ImageTokens, w \in Widths, h \in Heights,
                   pp \in {"", "max"} }
               \cup { [fn |-> "writeHistogram", token |-> tk] :
                        tk \in ImageTokens }
               \cup { [fn |-> "tile", token |-> tk, level |-> lv,
                       sz |-> sz, arbitrary_size |-> ar] :
                        tk \in TileTokens, lv \in {<<>>, <<1>>},
                        sz \in {<<>>, <<512>>}, ar \in BOOLEAN }
    /\ ret = NoCall

Thumbnail ==
    /\ arg.fn = "thumbnail"
    /\ ret = NoCall
    /\ ret' = thumbnail(arg.token, arg.width, arg.height, arg.preproc)
    /\ UNCHANGED <<machine, arg>>

\* the command of writeHistogram; the call of run() that ends it is StartRun
WriteHistogram ==
    /\ arg.fn = "writeHistogram"
    /\ ret = NoCall
    /\ ret' = writeHistogram(arg.token)
    /\ UNCHANGED <<machine, arg>>

Tile ==
    /\ arg.fn = "tile"
    /\ ret = NoCall
    /\ ret' = tile(arg.token, arg.level, arg.sz, arg.arbitrary_size)
    /\ UNCHANGED <<machine, arg>>

NextImage == Thumbnail \/ WriteHistogram \/ Tile

SpecImage == InitImage /\ [][NextImage]_vars

\* =================================================================
\* Properties
\* =================================================================
Writers(p) == {t \in Threads : guard[t].thread_w /\ guard[t].ofnm = p}
Readers(p) == {t \in Threads : guard[t].thread_r /\ guard[t].ifnm = p}

\* thread t waits inside rw.acquire_read(ifnm, timeout=None)
BlockedOnRead(t) ==
    /\ pc[t] = "acq_read"
    /\ guard[t].ifnm # None
    /\ ~CanRead(entry, guard[t].ifnm)
    /\ rtimeout(guard[t]) = NoTimeout

\* C1: for every path p at most one guard holds the registry write lock on
\* p, and while one does nobody holds a registry read lock on p; a thread
\* that waits for a registry lock on a path waits for a guard that holds the
\* write lock on that very path, never for a lock held on another path.
C1_ReadersWriterExclusion ==
    /\ \A p \in Paths :
         /\ Cardinality(Writers(p)) <= 1
         /\ Writers(p) # {} => Readers(p) = {} /\ entry[p].readers = 0
    /\ \A t \in Threads :
         BlockedOnRead(t) => Writers(guard[t].ifnm) \ {t} # {}

\* one guard holds the write lock on "b" while two guards hold read locks
\* on "a" together
C1_Witness ==
    \E t, u \in Threads :
      /\ t # u
      /\ guard[t].thread_w /\ guard[t].ofnm = "b"
      /\ guard[t].thread_r /\ guard[t].ifnm = "a"
      /\ guard[u].thread_r /\ guard[u].ifnm = "a"

\* the converter of thread t is at work on output path p
Converting(t, p) ==
    pc[t] = "conv" /\ call[t].op = "run" /\ call[t].ofnm = p

\* C2: two run() calls never have their converters at work on the same
\* output path together, and while the converter of one call is at work
\* on the path no other call creates, truncates, rewrites or deletes the
\* file there.
C2_OneWriterPerOutput ==
    [][\A p \in OutPaths :
         /\ Cardinality({t \in Threads : Converting(t, p)}) <= 1
         /\ \A t \in Threads :
              (Converting(t, p) /\ pc'[t] = "conv") => file'[p] = file[p]
      ]_vars

\* run() returns: the step that takes thread t to "done"
RunReturns(t) ==
    call[t].op = "run" /\ pc[t] # "done" /\ pc'[t] = "done"

Complete(sz) == sz # Absent /\ sz >= MINIMUM_FILE_SIZE

\* C3: when a run() call that invoked the converter ends in failure
\* (returns None or raises) and no other call is writing the output path,
\* the file at the output path is absent or complete.
C3_NoPartialOutputAfterFailure ==
    [][\A t \in Threads :
         ( /\ RunReturns(t)
           /\ call[t].ofnm # None
           /\ log[t] # <<>>
           /\ result'[t] # "ReturnPath"
           /\ Writers(call[t].ofnm) \ {t} = {} )
         => ( file'[call[t].ofnm] = Absent
              \/ Complete(file'[call[t].ofnm]) )
      ]_vars

\* C4: after exit code 0 run() returns the output path only if the file
\* exists with at least the minimum size; an undersized output is deleted
\* and the call reports failure.
C4_SuccessOnlyWithCompleteOutput ==
    [][\A t \in Threads :
         ( /\ RunReturns(t)
           /\ pc[t] = "post387"
           /\ call[t].ofnm # None
           /\ Writers(call[t].ofnm) \ {t} = {} )
         => ( /\ result'[t] = "ReturnPath" => Complete(file'[call[t].ofnm])
              /\ ~Complete(file[call[t].ofnm])
                   => /\ result'[t] = "ReturnNone390"
                      /\ file'[call[t].ofnm] = Absent )
      ]_vars

\* acquire() of the guard of thread t ends in this step, by return or raise
InAcquire(t) == pc[t] \in {"acq_read", "acq_rf", "acq_write", "acq_wf"}
AcquireEnds(t) == InAcquire(t) /\ ~(InAcquire(t))'

\* guard g holds no registry lock and no file lock
HoldsNothing(g) ==
    ~g.thread_r /\ ~g.thread_w /\ g.rf = "None" /\ g.wf = "None"

\* C5: when acquire() of a guard built with failonexist=True ends while a
\* non-empty file exists at the output path, the guard is not locked, every
\* lock it had taken is released, the file is left as it was and the
\* converter is not invoked.
C5_ExistingOutputIsKept ==
    [][\A t \in Threads :
         ( /\ AcquireEnds(t)
           /\ guard[t].failonexist
           /\ guard[t].ofnm # None
           /\ file[guard[t].ofnm] \notin {Absent, 0} )
         => ( /\ ~guard'[t].locked
              /\ HoldsNothing(guard'[t])
              /\ entry' = ReleaseEntry(guard[t], entry)
              /\ file' = file
              /\ pc'[t] \notin {"invoke", "conv"}
              /\ log'[t] = <<>> )
      ]_vars

\* C10: when acquire() ends without the guard being locked, run() and
\* run_read() end with ImageServiceFuture and have not invoked the
\* converter in that call.
C10_UnlockedGuardGivesFuture ==
    [][\A t \in Threads :
         /\ ( AcquireEnds(t) /\ ~guard'[t].locked )
              => ( /\ pc'[t] = "exit"
                   /\ pend'[t] = "Future"
                   /\ log[t] = <<>> )
         /\ ( pc[t] = "exit" /\ pend[t] = "Future" /\ pc'[t] # "exit" )
              => ( pc'[t] = "done" /\ result'[t] = "Future" )
      ]_vars

\* thread t is past a `with Locks(...)` block it had entered
PastSection(t) ==
    pc[t] \in {"post382", "post387", "done"} /\ guard[t].live

\* C6: once control has left a `with Locks(...)` block of run() or
\* run_read(), by completion, return or exception, the guard holds no
\* registry lock and no file lock; the step that leaves the block gives
\* back to the registry exactly what the guard held.
C6_ReleasedOnEveryExit ==
    /\ [](\A t \in Threads :
            PastSection(t) => HoldsNothing(guard[t]) /\ ~guard[t].locked)
    /\ [][\A t \in Threads :
            ( pc[t] \in {"invoke", "conv", "exit"} /\ guard[t].live
              /\ pc'[t] \notin {"invoke", "conv", "exit"} )
            => LET g == guard[t] IN
               /\ pc[t] = "exit"
               /\ g.thread_w => ~entry'[g.ofnm].writer
               /\ g.thread_r =>
                    entry'[g.ifnm].readers = entry[g.ifnm].readers - 1
               /\ HoldsNothing(guard'[t])
         ]_vars

\* the timeout exception of line 373 has left the block and the guard that
\* held both locks is released
C6_Witness ==
    \E t \in Threads :
      /\ pc[t] = "done" /\ result[t] = "Exc412"
      /\ guard[t].live /\ guard[t].ofnm = "b"
      /\ HoldsNothing(guard[t])
      /\ ~entry["b"].writer

\* C7: release() is idempotent: released a second time, a guard changes
\* neither the registry nor the file system nor itself; on a guard that
\* holds nothing release() changes no lock and no file, and it never gives
\* back a lock that is not held.
C7_ReleaseIdempotent ==
    /\ [](\A t \in Threads :
            LET g  == guard[t]
                g1 == ReleaseGuard(g)
                e1 == ReleaseEntry(g, entry)
                f1 == ReleaseFile(g, file)
            IN  /\ ReleaseGuard(g1) = g1
                /\ ReleaseEntry(g1, e1) = e1
                /\ ReleaseFile(g1, f1) = f1
                /\ \A p \in Paths : e1[p].readers >= 0
                /\ HoldsNothing(g) => /\ ReleaseEntry(g, entry) = entry
                                      /\ ReleaseFile(g, file) = file)
    /\ [][\A t \in Threads :
            ( pc[t] = "exit" /\ HoldsNothing(guard[t]) /\ pc'[t] # "exit" )
            => entry' = entry /\ file' = file /\ guard'[t] = guard[t]
         ]_vars

\* __exit__ has released a guard that acquire() had released already
\* (output exists under failonexist), and the output file is still there
C7_Witness ==
    \E t \in Threads :
      /\ pc[t] = "done" /\ result[t] = "Future" /\ site[t] = "run1"
      /\ guard[t].ofnm = "b" /\ file["b"] # Absent
      /\ HoldsNothing(guard[t])

\* C8: a call invokes the converter at most twice; a second invocation
\* happens only after exit code 100 or 101 and carries the same command;
\* once the code moves on, a first code of 100 or 101 has been followed by
\* exactly one more invocation; in run() a non-zero code of the second
\* attempt ends the call in failure.
C8_RetryOnce ==
    \A t \in Threads :
      /\ Len(log[t]) <= 2
      /\ Len(log[t]) = 2 =>
           /\ log[t][1].ret \in {100, 101}
           /\ log[t][2].cmd = log[t][1].cmd
      /\ ( log[t] # <<>> /\ pc[t] \in {"exit", "done", "post382", "post387"}
           /\ log[t][1].ret \in {100, 101} ) => Len(log[t]) = 2
      /\ ( pc[t] = "invoke" /\ log[t] # <<>> ) =>
           Len(log[t]) = 1 /\ log[t][1].ret \in {100, 101}
      /\ ( call[t].op = "run" /\ pc[t] = "exit" /\ Len(log[t]) = 2
           /\ log[t][2].ret # 0 ) => pend[t] \in {"ReturnNone376", "Exc412"}

\* run() has retried after 101 and the second attempt failed with 100
C8_Witness ==
    \E t \in Threads :
      /\ call[t].op = "run" /\ pc[t] = "exit" /\ Len(log[t]) = 2
      /\ log[t][1].ret = 101 /\ log[t][2].ret = 100
      /\ pend[t] = "ReturnNone376"

\* C9: when the last exit code in run() is 99 the output file is gone
\* before the guard is released, the call is about to raise the timeout
\* failure and is not retried; the call then ends with that failure and
\* with the guard released.
C9_TimeoutDeletesOutput ==
    /\ [](\A t \in Threads :
            ( call[t].op = "run" /\ log[t] # <<>> /\ pc[t] # "conv"
              /\ log[t][Len(log[t])].ret = 99 )
            => /\ pc[t] = "exit" /\ pend[t] = "Exc412"
               /\ call[t].ofnm # None => file[call[t].ofnm] = Absent)
    /\ [][\A t \in Threads :
            ( pc[t] = "exit" /\ pend[t] = "Exc412" /\ pc'[t] # "exit" )
            => /\ pc'[t] = "done" /\ result'[t] = "Exc412"
               /\ HoldsNothing(guard'[t]) /\ ~guard'[t].locked
               /\ entry' = ReleaseEntry(guard[t], entry)
               /\ call[t].ofnm # None => file'[call[t].ofnm] = Absent
         ]_vars

\* the timeout failure has been raised for a call with an output path
C9_Witness ==
    \E t \in Threads :
      /\ call[t].op = "run" /\ call[t].ofnm = "b"
      /\ pc[t] = "done" /\ result[t] = "Exc412"
      /\ file["b"] = Absent

\* thread t takes a step of acquire() in its input stage
InputStep(t) ==
    /\ pc[t] \in {"acq_read", "acq_rf"}
    /\ guard[t].ifnm # None
    /\ <<pc[t], guard[t], lock_sleep[t]>>' # <<pc[t], guard[t], lock_sleep[t]>>

\* C11: a guard with failonread=True never waits for its input: its
\* registry read lock is a timeout=0 probe that is always able to return, a
\* busy registry or a refused shared file lock ends acquire() in that very
\* step with locked False, and it never sleeps.  A guard with
\* failonread=False has no timeout on the registry, leaves the registry
\* stage only with the read lock, answers a refused shared file lock with a
\* sleep (doubled, capped at MAX_SLEEP) followed by another try, and leaves
\* the file stage of an existing input only with the shared lock.
C11_FailOnReadNeverWaits ==
    /\ [](\A t \in Threads :
            LET g == guard[t] IN
            /\ ( g.live /\ g.failonread ) =>
                 /\ rtimeout(g) = TIMEOUT
                 /\ lock_sleep[t] = LOCK_SLEEP
                 /\ pc[t] = "acq_read" => ENABLED AcquireRead(t)
            /\ ( g.live /\ ~g.failonread ) =>
                 /\ rtimeout(g) = NoTimeout
                 /\ ( pc[t] = "acq_read" /\ g.ifnm # None
                      /\ ~CanRead(entry, g.ifnm) ) => ~ENABLED AcquireRead(t))
    /\ [][\A t \in Threads :
            LET g == guard[t] IN
            /\ ( InputStep(t) /\ g.failonread /\ pc[t] = "acq_read"
                 /\ ~CanRead(entry, g.ifnm) )
               => ( ~InAcquire(t)' /\ ~guard'[t].locked /\ entry' = entry )
            /\ ( InputStep(t) /\ g.failonread /\ pc[t] = "acq_rf"
                 /\ file[g.ifnm] # Absent /\ guard'[t].rf # "locked" )
               => ( ~InAcquire(t)' /\ ~guard'[t].locked
                    /\ lock_sleep'[t] = lock_sleep[t] )
            /\ ( InputStep(t) /\ ~g.failonread /\ pc[t] = "acq_read" )
               => ( guard'[t].thread_r /\ InAcquire(t)' )
            /\ ( InputStep(t) /\ ~g.failonread /\ pc[t] = "acq_rf"
                 /\ file[g.ifnm] # Absent )
               => \/ guard'[t].rf = "locked" /\ pc'[t] = "acq_write"
                  \/ /\ pc'[t] = "acq_rf" /\ guard'[t].rf = "open"
                     /\ lock_sleep'[t] = Min(lock_sleep[t] * 2, MAX_SLEEP)
         ]_vars

\* one guard with failonread=True has given up on a refused shared lock
\* while a guard with failonread=False has slept up to the cap and still
\* tries
C11_Witness ==
    \E t, u \in Threads :
      /\ guard[t].failonread /\ guard[t].rf = "open"
      /\ pc[t] = "exit" /\ pend[t] = "Future" /\ ~guard[t].locked
      /\ ~guard[u].failonread /\ pc[u] = "acq_rf"
      /\ lock_sleep[u] = MAX_SLEEP

\* thread t takes a step of the guard or of run(); the converter's own
\* writes (the step that ends an invocation) are not among them
CodeStep(t) == pc'[t] # pc[t] /\ pc[t] # "conv"

\* C12: whenever a step of the guard or of run() creates, truncates or
\* deletes the file at a path, the thread that takes the step holds the
\* registry write lock on the path and the exclusive file lock on it (held
\* before the step or obtained by the very open-and-lock of the step).
C12_MutationOnlyUnderWriteLock ==
    [][\A p \in Paths :
         file'[p] # file[p] =>
           \A t \in Threads :
             CodeStep(t) =>
               /\ guard[t].thread_w /\ guard[t].ofnm = p
               /\ guard[t].wf = "locked" \/ guard'[t].wf = "locked"
      ]_vars

\* thread t is at an invocation of the converter made by run() or
\* run_read(): about to call call_imgcnvlib, or inside it
Invoking(t) ==
    pc[t] \in {"invoke", "conv"} /\ call[t].op \in {"run", "run_read"}

\* C13: while an invocation of the converter made by run() or run_read()
\* is in progress, the first one or the retry, the guard of the call is
\* locked and not released: it holds the registry read lock on the input,
\* the registry write lock on the output if there is one, and the registry
\* records both.
C13_InvocationInsideGuard ==
    \A t \in Threads :
      Invoking(t) =>
        LET g == guard[t] IN
        /\ g.live /\ g.locked
        /\ g.ifnm = call[t].ifnm /\ g.ofnm = call[t].ofnm
        /\ g.thread_r /\ entry[g.ifnm].readers >= 1
        /\ g.ofnm # None => g.thread_w /\ entry[g.ofnm].writer
        /\ os_name # "nt" =>
             /\ g.rf = "locked"
             /\ g.ofnm # None => g.wf = "locked"

\* the retry of run() is in progress under the guard of the first attempt
C13_Witness ==
    \E t \in Threads :
      /\ pc[t] = "conv" /\ call[t].op = "run" /\ call[t].ofnm = "b"
      /\ Len(log[t]) = 2
      /\ guard[t].locked /\ guard[t].thread_w

\* group_files_dicom has returned its three lists
Grouped == ret # NoCall /\ ret.fn = "group_files_dicom" /\ ret.value

\* the entries of the image files of the call
CallData == ReadData(arg.files, arg.dicom)

\* no two image files of one group have the same position
DistinctPositions ==
    \A i, j \in DOMAIN CallData :
      ( i # j /\ CallData[i].key = CallData[j].key )
        => CallData[i].pos # CallData[j].pos

\* C14: stated as in the claim: for every order of the same files with
\* the same metadata group_files_dicom returns the same groups, each in
\* the same order.
C14_GroupsIndependentOfInputOrder ==
    Grouped =>
      \A q \in Orders(Files) :
        group_files_dicom(installed, q, arg.dicom).images = ret.images

\* C14, as the code has it: the groups and their files are the same for
\* every order of the input, and so is the order inside every group whose
\* files have distinct positions; files of a group that share a position
\* come out in the order the input has them in.
C14_GroupsUpToTies ==
    Grouped =>
      /\ \A q \in Orders(Files) :
           LET other == group_files_dicom(installed, q, arg.dicom).images IN
           /\ Len(other) = Len(ret.images)
           /\ \A i \in DOMAIN other :
                /\ {other[i][j] : j \in DOMAIN other[i]}
                     = {ret.images[i][j] : j \in DOMAIN ret.images[i]}
                /\ Len(other[i]) = Len(ret.images[i])
           /\ DistinctPositions => other = ret.images
      /\ \A i \in DOMAIN ret.images :
           \A j, k \in DOMAIN ret.images[i] :
             LET x == ret.images[i][j]
                 y == ret.images[i][k]
                 px == DataOf(x, arg.dicom[x]).pos
                 py == DataOf(y, arg.dicom[y]).pos
                 ix == CHOOSE n \in DOMAIN arg.files : arg.files[n] = x
                 iy == CHOOSE n \in DOMAIN arg.files : arg.files[n] = y
             IN  j < k => ( px < py \/ (px = py /\ ix < iy) )

\* three files of one series arrive out of order, two of them at the same
\* position
C14_Witness ==
    /\ Grouped
    /\ Len(ret.images) = 1 /\ Len(ret.images[1]) = 3
    /\ arg.files = <<"f3", "f2", "f1">>
    /\ ret.images[1] = <<"f2", "f3", "f1">>
    /\ DataOf("f3", arg.dicom["f3"]).pos = DataOf("f1", arg.dicom["f1"]).pos

\* the dataset of the first file of group i of the result
FirstOf(i) == arg.dicom[ret.images[i][1]]

\* the frame-count hint of a dataset: temporal positions, else frames
FrameCount(ds) == Or(read_tag_num(ds.num_temp_p), read_tag_num(ds.num_frames))

\* the dataset is a 3D acquisition without a slice location
TimeForced(ds) == ds.mr_acq_typ = "3D" /\ ds.slice_loc = NoTag

\* C15: stated as in the claim: a group of one file has geometry
\* (z=1, t=1); a larger group of n files whose first file carries a frame
\* count h > 0 has t = h and z = n div h; every other group has t = 1 and
\* z = n.
C15_GeometryFromFrameCount ==
    Grouped =>
      \A i \in DOMAIN ret.images :
        LET n == Len(ret.images[i])
            h == FrameCount(FirstOf(i))
        IN  ret.geometry[i] =
              IF n = 1 THEN [t |-> 1, z |-> 1]
              ELSE IF h > 0 THEN [t |-> h, z |-> n \div h]
              ELSE [t |-> 1, z |-> n]

\* C15, as the code has it: a group of one file has geometry (z=1, t=1);
\* a larger group of n files whose first file carries a frame count h > 0
\* has t = h and z = n div h; one whose first file carries no frame count
\* but is a 3D acquisition without slice location has t = n and z = 1;
\* every other group has t = 1 and z = n.
C15_GeometryWithForcedTime ==
    Grouped =>
      /\ DOMAIN ret.geometry = DOMAIN ret.images
      /\ \A i \in DOMAIN ret.images :
           LET n == Len(ret.images[i])
               h == FrameCount(FirstOf(i))
           IN  ret.geometry[i] =
                 IF n = 1 THEN [t |-> 1, z |-> 1]
                 ELSE IF h > 0 THEN [t |-> h, z |-> n \div h]
                 ELSE IF TimeForced(FirstOf(i)) THEN [t |-> n, z |-> 1]
                 ELSE [t |-> 1, z |-> n]

\* a group of three files with frame count 2: z = 3 div 2 = 1
C15_Witness ==
    /\ Grouped
    /\ \E i \in DOMAIN ret.images :
         /\ Len(ret.images[i]) = 3
         /\ FrameCount(FirstOf(i)) = 2
         /\ ret.geometry[i] = [t |-> 2, z |-> 1]

\* slice has returned
Sliced == ret # NoCall /\ ret.fn = "slice"

\* the counts and the order of the planes of the image of the call
Zcount == Get(arg.token.dims.image_num_z, 1)
Tcount == Get(arg.token.dims.image_num_t, 1)
TSlowest ==
    LET dm == Get(arg.token.dims.dimensions, XYCZT) IN
    ~( Len(StripSpaces(dm)) >= 4
       /\ \A i \in 1..4 : StripSpaces(dm)[i] = XYCT[i] )

\* the last value of a range whose end bound is e
EndOf(b, e) == IF e = 0 THEN b ELSE e

\* C16: slice() turns a request for the planes Z in z1..z2 and T in
\* t1..t2 (an end bound of 0 stands for the start bound) into one page
\* per pair (Z, T), T by T and Z by Z inside each T; the page is Z if the
\* T-count is 1, else T if the Z-count is 1, else (T-1)*Zcount+Z when the
\* dimension string does not start with XYCT, else (Z-1)*Tcount+T.
C16_PagePerPlane ==
    Sliced =>
      LET z1 == arg.z[1]
          t1 == arg.t[1]
          nz == EndOf(z1, arg.z[2]) - z1 + 1
          nt == EndOf(t1, arg.t[2]) - t1 + 1
      IN  /\ Len(ret.pages) = nz * nt
          /\ \A k \in DOMAIN ret.pages :
               LET Z == z1 + ((k - 1) % nz)
                   T == t1 + ((k - 1) \div nz)
               IN  ret.pages[k] =
                     IF Tcount = 1 THEN Z
                     ELSE IF Zcount = 1 THEN T
                     ELSE IF TSlowest THEN (T - 1) * Zcount + Z
                     ELSE (Z - 1) * Tcount + T
          /\ ~arg.token.multifile =>
               \E i \in DOMAIN ret.command :
                 ret.command[i] = <<"-page", ret.pages>>

\* 3 x 4 planes in the order XYZCT: plane (Z=2, T=3) is page 8
C16_Witness ==
    /\ Sliced
    /\ Zcount = 3 /\ Tcount = 4 /\ TSlowest
    /\ arg.z = <<2, 0>> /\ arg.t = <<3, 0>>
    /\ ret.pages = <<8>>

\* the planes Z = 2..3, T = 3..4 of an image stored T fastest
C16_WitnessRange ==
    /\ Sliced
    /\ Zcount = 3 /\ Tcount = 4 /\ ~TSlowest
    /\ arg.z = <<2, 3>> /\ arg.t = <<3, 4>>
    /\ ret.pages = <<7, 11, 8, 12>>

\* the -roi options of the command slice returned
RoiOptions ==
    { ret.command[i][2] :
        i \in {j \in DOMAIN ret.command : ret.command[j][1] = "-roi"} }

\* a 1-based coordinate as a 0-based one; 0 is no 1-based coordinate and
\* stays as it is
ZeroBased(b) == IF b >= 1 THEN b - 1 ELSE b

\* C19: slice() converts the 1-based bounds of the region to 0-based ones
\* axis by axis: both bounds of an axis are decremented when its start and
\* end differ, and an axis whose start and end are equal is passed on as it
\* is; a region whose axes both have equal bounds adds no -roi option.
C19_RoiDecrementOnlyWhenBoundsDiffer ==
    Sliced =>
      LET x1 == arg.roi[1]
          x2 == arg.roi[2]
          y1 == arg.roi[3]
          y2 == arg.roi[4]
      IN  IF x1 = x2 /\ y1 = y2
          THEN RoiOptions = {}
          ELSE RoiOptions =
                 { << IF x1 # x2 THEN ZeroBased(x1) ELSE x1,
                      IF y1 # y2 THEN ZeroBased(y1) ELSE y1,
                      IF x1 # x2 THEN ZeroBased(x2) ELSE x2,
                      IF y1 # y2 THEN ZeroBased(y2) ELSE y2 >> }

\* columns 1 to 2 of row 3: the columns become 0 to 1, the row stays 3
C19_Witness ==
    /\ Sliced
    /\ arg.roi = <<1, 2, 3, 3>>
    /\ RoiOptions = { <<0, 3, 1, 3>> }

\* thumbnail or writeHistogram has returned a command
Commanded ==
    /\ ret # NoCall
    /\ ret.fn \in {"thumbnail", "writeHistogram"}
    /\ ret.fn = "thumbnail" => arg.preproc \in {"", "mid"}

\* the size the call asks for
RequestW == IF arg.fn = "thumbnail" THEN arg.width ELSE HistogramWidth
RequestH == IF arg.fn = "thumbnail" THEN arg.height ELSE HistogramHeight

\* the sizes of the levels of the image of the call
LevelSizes ==
    LET info == arg.token.dims IN
    Sizes(Get(info.image_num_x, 1), Get(info.image_num_y, 1),
          Get(info.image_resolution_level_scales, <<>>))

\* the image has several levels, each of a size that is not 0
Pyramidal ==
    /\ Get(arg.token.dims.image_num_resolution_levels, 1) > 1
    /\ LevelSizes # <<>>
    /\ \A i \in DOMAIN LevelSizes :
         LevelSizes[i][1] > 0 /\ LevelSizes[i][2] > 0

\* level i (counted from 1) is large enough for the request
Fits(i) == LevelSizes[i][1] >= RequestW /\ LevelSizes[i][2] >= RequestH

\* the levels the command asks for
LevelOptions ==
    { ret.command[i][2] :
        i \in {j \in DOMAIN ret.command : ret.command[j][1] = "-res-level"} }

\* C17: for a pyramidal image the command of thumbnail() and of
\* writeHistogram() names exactly one resolution level: a level that is at
\* least as wide and as high as the request and no larger, in either axis,
\* than any other such level; level 0 when no level is large enough.  For
\* an image that is not pyramidal no level is named.
C17_BestFitLevel ==
    Commanded =>
      IF Pyramidal
      THEN \E l \in 0..(Len(LevelSizes) - 1) :
             /\ LevelOptions = {l}
             /\ IF \E i \in DOMAIN LevelSizes : Fits(i)
                THEN /\ Fits(l + 1)
                     /\ \A i \in DOMAIN LevelSizes :
                          Fits(i) =>
                            /\ LevelSizes[l + 1][1] <= LevelSizes[i][1]
                            /\ LevelSizes[l + 1][2] <= LevelSizes[i][2]
                ELSE l = 0
      ELSE LevelOptions = {}

\* a request of 300 x 300 on levels (1000, 1000) and (250, 250) takes
\* level 0
C17_Witness ==
    /\ Commanded
    /\ arg.fn = "thumbnail" /\ arg.width = 300 /\ arg.height = 300
    /\ LevelSizes = << <<1000, 1000>>, <<250, 250>> >>
    /\ LevelOptions = {0}

\* the histogram of an image with levels 1000, 500 and 250 wide is taken
\* from level 1
C17_WitnessHistogram ==
    /\ Commanded
    /\ arg.fn = "writeHistogram"
    /\ LevelSizes = << <<1000, 1000>>, <<500, 500>>, <<250, 250>> >>
    /\ LevelOptions = {1}

\* the relative size of the request on level i, and whether it is kept
RelativeOf(i) ==
    FracMax(<<RequestW, LevelSizes[i][1]>>, <<RequestH, LevelSizes[i][2]>>)
Kept(i) == FracLe(RelativeOf(i), One)

\* C18: stated as in the claim: with relative = max(requested_w/level_w,
\* requested_h/level_h) per level, and the levels with relative > 1
\* discarded, the level that is selected is one with the minimum relative
\* value among the levels that are kept.
C18_MinimumRetainedRelative ==
    ( Commanded /\ Pyramidal /\ \E i \in DOMAIN LevelSizes : Kept(i) ) =>
      \E l \in LevelOptions :
        /\ Kept(l + 1)
        /\ \A i \in DOMAIN LevelSizes :
             Kept(i) => FracLe(RelativeOf(l + 1), RelativeOf(i))

\* C18, as the code has it: with relative = max(requested_w/level_w,
\* requested_h/level_h) per level, and the levels with relative > 1
\* discarded, the level that is selected is the first one with the
\* maximum relative value among the levels that are kept; level 0 when
\* every level is discarded.
C18_MaximumRetainedRelative ==
    ( Commanded /\ Pyramidal ) =>
      \E l \in 0..(Len(LevelSizes) - 1) :
        /\ LevelOptions = {l}
        /\ IF \E i \in DOMAIN LevelSizes : Kept(i)
           THEN /\ Kept(l + 1)
                /\ \A i \in DOMAIN LevelSizes :
                     Kept(i) => FracLe(RelativeOf(i), RelativeOf(l + 1))
                /\ \A i \in 1..l :
                     Kept(i) => ~FracEq(RelativeOf(i), RelativeOf(l + 1))
           ELSE l = 0

\* a thumbnail of 100 x 100 of an image with levels 1000, 500 and 250 wide
\* is taken from level 2, the level with the largest relative value
C18_Witness ==
    /\ Commanded
    /\ arg.fn = "thumbnail" /\ arg.width = 100 /\ arg.height = 100
    /\ LevelSizes = << <<1000, 1000>>, <<500, 500>>, <<250, 250>> >>
    /\ LevelOptions = {2}

\* C20: whenever acquire() of a guard ends without the guard being locked,
\* by returning or by raising, the guard holds no registry lock and no
\* file lock afterwards, and the registry has back every lock the guard
\* had taken.
C20_FailedAcquireHoldsNothing ==
    [][\A t \in Threads :
         ( AcquireEnds(t) /\ ~guard'[t].locked )
         => ( /\ HoldsNothing(guard'[t])
              /\ entry' = ReleaseEntry(guard[t], entry) )
      ]_vars

\* some thread other than t holds a lock that conflicts with guard g: a
\* write lock on the input or the output of g, or a read lock on its output
Contended(t, g) ==
    \E u \in Threads \ {t} :
      \/ guard[u].thread_w /\ guard[u].ofnm \in {g.ifnm, g.ofnm}
      \/ guard[u].thread_r /\ guard[u].ifnm = g.ofnm
      \/ guard[u].wf = "locked" /\ guard[u].ofnm \in {g.ifnm, g.ofnm}
      \/ guard[u].rf = "locked" /\ guard[u].ifnm = g.ofnm

\* the step of t is a try for a file lock, which another process may hold
FileLockTry(t) ==
    /\ os_name # "nt"
    /\ \/ pc[t] = "acq_rf"
       \/ /\ pc[t] = "acq_wf"
          /\ ~(guard[t].failonexist /\ file[guard[t].ofnm] # Absent)

\* C21: the first guard of run() is found unlocked, and run() ends with
\* the Future signal, only when another thread holds a conflicting lock or
\* a file lock is refused; with no other holder of a lock on the input or
\* the output path, run() goes on to invoke the converter (input and
\* output being different paths).
C21_FutureOnlyUnderContention ==
    [][\A t \in Threads :
         ( /\ AcquireEnds(t)
           /\ site[t] = "run1"
           /\ guard[t].ifnm # guard[t].ofnm
           /\ ~guard'[t].locked
           /\ pc'[t] = "exit" )
         => ( Contended(t, guard[t]) \/ FileLockTry(t) )
      ]_vars

\* acquire() of thread t gives up in its output stage in this step
OutputStageAbandons(t) ==
    /\ pc[t] \in {"acq_write", "acq_wf"}
    /\ guard[t].ofnm # None
    /\ AcquireEnds(t)
    /\ ~guard'[t].locked

\* C22: when acquire() gives up in its output stage (registry write lock
\* not available, output exists under failonexist, exclusive file lock
\* refused), the guard is left unlocked and holds nothing, and the registry
\* has back the read lock on the input and the write lock on the output if
\* it was taken; the shared file lock on the input is given up with them.
C22_OutputStageAbandonReleasesAll ==
    [][\A t \in Threads :
         OutputStageAbandons(t) =>
           LET g == guard[t] IN
           /\ ~guard'[t].locked
           /\ HoldsNothing(guard'[t])
           /\ entry' = ReleaseEntry(g, entry)
           /\ g.thread_r =>
                entry'[g.ifnm].readers = entry[g.ifnm].readers - 1
           /\ g.thread_w => ~entry'[g.ofnm].writer
           /\ t \notin ShHolders(g.ifnm)' /\ t \notin ExHolders(g.ofnm)'
      ]_vars

\* the exclusive file lock was refused: the guard that held the read lock
\* and the shared lock on "a" and the write lock on "b" holds nothing
C22_Witness ==
    \E t \in Threads :
      /\ os_name = "posix"
      /\ pc[t] = "exit" /\ pend[t] = "Future" /\ site[t] = "run1"
      /\ guard[t].ifnm = "a" /\ guard[t].ofnm = "b"
      /\ HoldsNothing(guard[t])
      /\ entry["a"].readers = 0 /\ ~entry["b"].writer
      /\ file["b"] = 0

\* what guard g has, of the four things acquire() takes
Held(g) ==
    (IF g.thread_r THEN {"thread_r"} ELSE {})
    \cup (IF g.rf # "None" THEN {"rf"} ELSE {})
    \cup (IF g.thread_w THEN {"thread_w"} ELSE {})
    \cup (IF g.wf # "None" THEN {"wf"} ELSE {})

\* the order acquire() takes them in
AcquireOrder == <<"thread_r", "rf", "thread_w", "wf">>

Reverse(seq) == [i \in DOMAIN seq |-> seq[Len(seq) + 1 - i]]

WriteLockGivenUp(t) ==
    /\ guard[t].live /\ guard'[t].live
    /\ guard[t].thread_w /\ ~guard'[t].thread_w

\* C24: when a guard gives up the write lock on its output, no file of
\* length 0 is left at the output path (an empty file is deleted by the
\* release), and a file that is not empty is left as it is.
C24_NoEmptyOutputAfterRelease ==
    [][\A t \in Threads :
         WriteLockGivenUp(t) =>
           LET o == guard[t].ofnm IN
           /\ file'[o] # 0
           /\ ( file[o] # Absent /\ file[o] > 0 ) => file'[o] = file[o]
      ]_vars

\* C25: the 'libimgcnv' write lock of the in-process library path is held
\* only while a library call is in progress: after every call, one that
\* raised included, the lock is free again.
C25_LibLockReleasedAfterCall ==
    liblock => \E t \in Threads : pc[t] = "conv"

\* C26: every call of run_command(), run_read() and run() ends with an
\* output path, the converter's output, a failure report (None), a typed
\* exception or the Future signal, never with an exception of another
\* kind.
C26_NoUntypedException ==
    \A t \in Threads :
      pc[t] = "done" =>
        result[t] \in {"ReturnPath", "ReturnOut", "ReturnStr",
                       "ReturnNone349", "ReturnNone376", "ReturnNone390",
                       "Exc412", "Exc404", "Future"}

\* the waits of the claim, in tenths of a second
DelaySeries == <<3, 6, 12, 24, 48, 80, 80>>

\* min(0.3 * 2^(k-1), 8), in tenths of a second
Delay(k) == IF LOCK_SLEEP * 2^(k - 1) < MAX_SLEEP
            THEN LOCK_SLEEP * 2^(k - 1) ELSE MAX_SLEEP

\* thread t, refused the shared lock, sleeps and stays in the loop
Waits(t) ==
    /\ pc[t] = "acq_rf" /\ pc'[t] = "acq_rf"
    /\ ~guard[t].failonread
    /\ guard'[t].rf = "open"
    /\ <<guard'[t], lock_sleep'[t]>> # <<guard[t], lock_sleep[t]>>

\* C27: the loop for the shared file lock starts with a delay of 0.3 s;
\* a refused attempt without failonread sleeps for the current delay and
\* then doubles it, up to 8 s, so that the k-th wait lasts
\* min(0.3 * 2^(k-1), 8) s: 0.3, 0.6, 1.2, 2.4, 4.8, 8, 8, ...; the loop on
\* an existing input ends only with the lock.
C27_BackoffSeries ==
    /\ [](/\ \A k \in DOMAIN DelaySeries : Delay(k) = DelaySeries[k]
          /\ \A t \in Threads :
               /\ lock_sleep[t] <= MAX_SLEEP
               /\ \E k \in DOMAIN DelaySeries : lock_sleep[t] = Delay(k))
    /\ [][\A t \in Threads :
            /\ ( pc[t] # "acq_rf" /\ pc'[t] = "acq_rf" )
                 => lock_sleep'[t] = Delay(1)
            /\ Waits(t) =>
                 \A k \in DOMAIN DelaySeries :
                   lock_sleep[t] = Delay(k) => lock_sleep'[t] = Delay(k + 1)
            /\ ( pc[t] = "acq_rf" /\ pc'[t] # "acq_rf"
                 /\ ~guard[t].failonread /\ file[guard[t].ifnm] # Absent )
                 => guard'[t].rf = "locked"
         ]_vars

\* after four waits of 0.3, 0.6, 1.2 and 2.4 s the fifth will last 4.8 s
C27_Witness ==
    \E t \in Threads :
      /\ pc[t] = "acq_rf" /\ ~guard[t].failonread
      /\ guard[t].rf = "open"
      /\ lock_sleep[t] = DelaySeries[5]

\* the position the claim orders a file by: its slice location when the
\* dataset has the field, its instance number otherwise
StatedPosition(f) ==
    LET ds == arg.dicom[f] IN
    IF ds.slice_loc # NoTag THEN ds.slice_loc
    ELSE read_tag_num(ds.instance_num)

\* the grouping key of file f of the call
KeyOf(f) == DataOf(f, arg.dicom[f]).key

\* the place of file f in the input list
InputIndex(f) == CHOOSE n \in DOMAIN arg.files : arg.files[n] = f

\* the files of group i of the result
GroupFiles(i) == { ret.images[i][j] : j \in DOMAIN ret.images[i] }

\* C28: the groups come in ascending order of the grouping key, a group
\* holds exactly the image files with its key, and inside a group the
\* files that have a slice-location field are in ascending order of slice
\* location and the files that have none in ascending order of instance
\* number.
C28_GroupsOrderedByStatedPosition ==
    Grouped =>
      /\ \A i, k \in DOMAIN ret.images :
           i < k => KeyLess(KeyOf(ret.images[i][1]), KeyOf(ret.images[k][1]))
      /\ \A i \in DOMAIN ret.images :
           GroupFiles(i) =
             { f \in Files : /\ arg.dicom[f].pixel
                             /\ KeyOf(f) = KeyOf(ret.images[i][1]) }
      /\ \A i \in DOMAIN ret.images :
           \A j, k \in DOMAIN ret.images[i] :
             LET x == ret.images[i][j]
                 y == ret.images[i][k]
             IN  ( /\ j < k
                   /\ (arg.dicom[x].slice_loc = NoTag)
                        = (arg.dicom[y].slice_loc = NoTag) )
                   => StatedPosition(x) <= StatedPosition(y)

\* C29: two files of one group with equal ordering keys are in the group
\* in the order they have in the input list.
C29_TiesKeepInputOrder ==
    Grouped =>
      \A i \in DOMAIN ret.images :
        \A j, k \in DOMAIN ret.images[i] :
          LET x == ret.images[i][j]
              y == ret.images[i][k]
          IN  ( j < k /\ DataOf(x, arg.dicom[x]).pos
                           = DataOf(y, arg.dicom[y]).pos )
                => InputIndex(x) < InputIndex(y)

\* f2 and f3 share a position and f1, between them in the input, sorts
\* before both: the sort moves f1 and leaves f2 before f3
C29_Witness ==
    /\ Grouped
    /\ arg.files = <<"f2", "f1", "f3">>
    /\ ret.images = << <<"f1", "f2", "f3">> >>
    /\ DataOf("f2", arg.dicom["f2"]).pos = DataOf("f3", arg.dicom["f3"]).pos

\* the number of places of sequence s that hold x
RECURSIVE Count(_, _)
Count(x, s) ==
    IF s = <<>> THEN 0
    ELSE (IF Head(s) = x THEN 1 ELSE 0) + Count(x, Tail(s))

\* the number of places of the groups that hold x
RECURSIVE CountAll(_, _)
CountAll(x, ss) ==
    IF ss = <<>> THEN 0 ELSE Count(x, Head(ss)) + CountAll(x, Tail(ss))

\* C30: every input file is in the output exactly once: in the blob list
\* when it has no pixel data or cannot be read, in exactly one group
\* otherwise; the output holds no other file, and there is one geometry
\* record for each group.
C30_OutputPartitionsInput ==
    Grouped =>
      /\ \A i \in DOMAIN arg.files :
           LET f == arg.files[i] IN
           /\ Count(f, ret.blobs) + CountAll(f, ret.images) = 1
           /\ Count(f, ret.blobs) = 1 <=> ~arg.dicom[f].pixel
      /\ \A i \in DOMAIN ret.blobs : ret.blobs[i] \in Files
      /\ \A i \in DOMAIN ret.images :
           /\ ret.images[i] # <<>>
           /\ GroupFiles(i) \subseteq Files
      /\ Len(ret.geometry) = Len(ret.images)
      /\ DOMAIN ret.geometry = DOMAIN ret.images

\* one file without pixel data and two image files of different series
C30_Witness ==
    /\ Grouped
    /\ Len(ret.blobs) = 1
    /\ Len(ret.images) = 2
    /\ Len(ret.geometry) = 2

\* every file of group i is a 3D acquisition without a slice location
AllTimeForced(i) ==
    \A j \in DOMAIN ret.images[i] : TimeForced(arg.dicom[ret.images[i][j]])

\* C31: stated as in the claim: a group of n > 1 files that all declare
\* acquisition type "3D" and have no slice location has geometry t = n,
\* z = 1, whatever frame counts the files carry.
C31_ForcedTimeWhateverCounts ==
    Grouped =>
      \A i \in DOMAIN ret.images :
        ( Len(ret.images[i]) > 1 /\ AllTimeForced(i) )
          => ret.geometry[i] = [t |-> Len(ret.images[i]), z |-> 1]

\* C31, as the code has it: a group of n > 1 files that all declare
\* acquisition type "3D" and have no slice location has geometry t = n,
\* z = 1 when its first file carries no frame count; when that file
\* carries a frame count h > 0 the count wins: t = h, z = n div h.
C31_ForcedTimeWithoutCounts ==
    Grouped =>
      \A i \in DOMAIN ret.images :
        LET n == Len(ret.images[i])
            h == FrameCount(FirstOf(i))
        IN  ( n > 1 /\ AllTimeForced(i) )
              => ret.geometry[i] =
                   IF h = 0 THEN [t |-> n, z |-> 1]
                   ELSE [t |-> h, z |-> n \div h]

\* two 3D files without slice location and without frame counts form a
\* group of two time points
C31_Witness ==
    /\ Grouped
    /\ \E i \in DOMAIN ret.images :
         /\ Len(ret.images[i]) = 2
         /\ AllTimeForced(i)
         /\ FrameCount(FirstOf(i)) = 0
         /\ ret.geometry[i] = [t |-> 2, z |-> 1]

\* C34: every geometry record has z >= 1, t >= 1 and z * t at most the
\* number of files of its group, whatever the group size and the frame
\* count.
C34_GeometryWithinGroup ==
    Grouped =>
      \A i \in DOMAIN ret.geometry :
        /\ ret.geometry[i].z >= 1
        /\ ret.geometry[i].t >= 1
        /\ ret.geometry[i].z * ret.geometry[i].t <= Len(ret.images[i])

\* the number of channels of the multi-file series of the call
Channels == Get(arg.token.meta_image_num_c, 0)

\* C32: for a multi-file series with C > 1 channels slice() selects, for
\* the k-th page p, the C file indices (p-1)*C, ..., (p-1)*C + C-1, counted
\* from 0, page after page: C files for each page.
C32_ChannelsPerPage ==
    ( Sliced /\ arg.token.multifile /\ Channels > 1 ) =>
      /\ ret.rebound
      /\ Len(ret.input) = Channels * Len(ret.pages)
      /\ \A k \in DOMAIN ret.pages :
           \A c \in 0..(Channels - 1) :
             ret.input[(k - 1) * Channels + c + 1]
               = (ret.pages[k] - 1) * Channels + c

\* pages 8 and 11 of a series with two channels: files 14, 15, 20, 21
C32_Witness ==
    /\ Sliced /\ arg.token.multifile /\ Channels = 2
    /\ ret.pages = <<8, 11>>
    /\ ret.input = <<14, 15, 20, 21>>

\* the planes of the image of the call
Planes == (1..Zcount) \X (1..Tcount)

\* the page of plane pl = <<Z, T>> of the image of the call
PageOf(pl) == page_num(arg.token.dims, pl[1], pl[2])

\* the request is for every plane of the image
WholeImage ==
    /\ arg.z[1] = 1 /\ EndOf(1, arg.z[2]) = Zcount
    /\ arg.t[1] = 1 /\ EndOf(1, arg.t[2]) = Tcount

\* C35: for the Z-count and the T-count of the image and either order of
\* the dimensions, the page numbers of the planes (Z, T), Z in 1..Zcount
\* and T in 1..Tcount, are the numbers 1..Zcount*Tcount, each once; a
\* request for the whole image returns each of them once.
C35_PagesAreBijection ==
    Sliced =>
      /\ \A pl \in Planes : PageOf(pl) \in 1..(Zcount * Tcount)
      /\ \A pl, ql \in Planes : pl # ql => PageOf(pl) # PageOf(ql)
      /\ \A n \in 1..(Zcount * Tcount) : \E pl \in Planes : PageOf(pl) = n
      /\ WholeImage =>
           /\ Len(ret.pages) = Zcount * Tcount
           /\ \A n \in 1..(Zcount * Tcount) :
                \E k \in DOMAIN ret.pages : ret.pages[k] = n

\* the whole of an image of 3 x 4 planes stored T fastest
C35_Witness ==
    /\ Sliced /\ WholeImage
    /\ Zcount = 3 /\ Tcount = 4 /\ ~TSlowest
    /\ ret.pages = <<1, 5, 9, 2, 6, 10, 3, 7, 11, 4, 8, 12>>

\* thumbnail, tile or writeHistogram has returned a command
Built ==
    \/ Commanded
    \/ /\ ret # NoCall /\ ret.fn = "tile"
       /\ ~TileSkipped(arg.token, arg.level, arg.sz, arg.arbitrary_size)

\* the number of options of a command with the given flag
FlagCount(flag, command) ==
    Cardinality({ i \in DOMAIN command : command[i][1] = flag })

\* the number of options with the flag that the call itself has added
\* (writeHistogram copies the queue into its command)
Added(flag) ==
    FlagCount(flag, ret.command)
      - (IF ret.fn = "writeHistogram"
         THEN FlagCount(flag, arg.token.queue) ELSE 0)

\* C36: thumbnail(), tile() and writeHistogram() add no -i or -il when the
\* queue of the token already has one of them and no -page when the queue
\* already has -page, so that the options of the queue and those the call
\* adds hold at most one -i and at most one -page.
C36_NoDuplicateInputOrPage ==
    Built =>
      /\ ( InQueue("-i", arg.token.queue) \/ InQueue("-il", arg.token.queue) )
           => ( Added("-i") = 0 /\ Added("-il") = 0 )
      /\ InQueue("-page", arg.token.queue) => Added("-page") = 0
      /\ Added("-i") + FlagCount("-i", arg.token.queue) <= 1
      /\ Added("-page") + FlagCount("-page", arg.token.queue) <= 1

\* thread t is stopped in rw.acquire_write('libimgcnv')
BlockedOnLibrary(t) ==
    /\ pc[t] = "invoke"
    /\ os_name = "nt" /\ imgcnvlib # "None"
    /\ liblock

\* thread t is stopped in rw.acquire_write(ofnm) without a timeout
BlockedOnWrite(t) ==
    /\ pc[t] = "acq_write"
    /\ guard[t].ofnm # None
    /\ ~CanWrite(entry, guard[t].ofnm)
    /\ wtimeout(guard[t]) = NoTimeout

\* C33: a thread that is stopped waiting for a registry lock, the read lock
\* on its input, the write lock on its output or the lock of the library,
\* holds no registry lock, so no set of calls can stop each other for ever.
C33_NoWaitWhileHolding ==
    \A t \in Threads :
      ( BlockedOnRead(t) \/ BlockedOnWrite(t) \/ BlockedOnLibrary(t) )
        => ( ~guard[t].thread_r /\ ~guard[t].thread_w )

\* what the guard of thread t has taken in the registry and not given back
Taken(t) == ret.held[t]

\* the guard of t holds nothing in the registry
TakenNothing(t) ==
    \A p \in Paths : Taken(t).r[p] = 0 /\ Taken(t).w[p] = 0

\* the guard of t holds one read lock, on its input, and no other
OneReadOnInput(t) ==
    /\ guard[t].ifnm # None
    /\ \A p \in Paths : Taken(t).r[p] = IF p = guard[t].ifnm THEN 1 ELSE 0

\* the guard of t holds one write lock, on its output, and no other
OneWriteOnOutput(t) ==
    /\ guard[t].ofnm # None
    /\ \A p \in Paths : Taken(t).w[p] = IF p = guard[t].ofnm THEN 1 ELSE 0

\* C37: after any sequence of acquire() and release() calls of a guard,
\* with or without path arguments, thread_r is true exactly when the guard
\* holds one registry read lock, on its input, and false exactly when it
\* holds none; the same for thread_w and the write lock on its output;
\* and after release() the guard holds nothing: release() has given up
\* the very keys acquire() locked.
C37_FlagsMatchRegistry ==
    ret.fn = "Locks" =>
      \A t \in Threads :
        guard[t].live =>
          /\ IF guard[t].thread_r THEN OneReadOnInput(t)
             ELSE \A p \in Paths : Taken(t).r[p] = 0
          /\ IF guard[t].thread_w THEN OneWriteOnOutput(t)
             ELSE \A p \in Paths : Taken(t).w[p] = 0
          /\ call[t].op = "release" => TakenNothing(t)

====
